---- MODULE Spec2Model ----
(***************************************************************************)
(* Verification model of the MAB quiz backend (foxxafa/mabquiz).           *)
(*                                                                         *)
(* Part 1: the per-user bandit arm store (models/mab_state.py) and the     *)
(* two-way delta sync endpoint POST /sync/mab (routers/sync.py).           *)
(*                                                                         *)
(* Conventions                                                             *)
(*  - a table is a function from its unique key to its row; a missing row  *)
(*    is a key outside the DOMAIN;                                         *)
(*  - a nullable column holds <<>> (NULL) or <<v>>;                        *)
(*  - a DateTime is a number of microseconds, an epoch-ms integer is       *)
(*    converted by FromTimestamp;                                          *)
(*  - alpha and beta are the integral float values the program uses;       *)
(*    user_confidence is a reduced fraction <<num, den>>.                  *)
(***************************************************************************)
EXTENDS Integers, Sequences, FiniteSets, TLC

\* ------------------------------------------------------------------ bounds
\* The server clock (epoch ms) runs from 1 to MaxClock; every write request
\* takes at least one millisecond, so MaxClock also bounds the run length.
MaxClock == 4
\* Most arm snapshots one sync request carries, both lists together.
MaxBatch == 2

\* ------------------------------------------------------------ input domains
Users == {"u1", "u2"}
QuestionIds == {"q1", "q2"}
TopicKeys == {"t1"}
\* last_sync_time values a client may send (epoch ms; <= 0 is the bootstrap).
LastSyncTimes == {-1, 0, 1}
\* response_time_ms of an observed answer.
ResponseTimes == {1000}

Null == <<>>
Some(v) == <<v>>
\* Marks a column the INSERT statement sends as NULL because the constructor
\* was given no value and the column has no default.
NullStr == "<NULL>"

\* ------------------------------------------------------------------ helpers
RECURSIVE Gcd(_, _)
Gcd(a, b) == IF b = 0 THEN a ELSE Gcd(b, a % b)

\* The fraction n/d in lowest terms (d > 0).
Ratio(n, d) == <<n \div Gcd(n, d), d \div Gcd(n, d)>>

\* datetime.fromtimestamp(ms / 1000): the naive DateTime of an epoch-ms
\* value, here on a server whose local time is UTC, in microseconds.
FromTimestamp(ms) == ms * 1000

\* Sequences over S of length at most n.
SeqUpTo(S, n) == UNION {[1..k -> S] : k \in 0..n}

\* ------------------------------------------------------------ request model
\* class QuestionArmSync(BaseModel): the snapshots a client may submit for a
\* question.  The one stamped 1 is the snapshot of the documented scenario;
\* the one stamped 2 is well-typed but has attempts # successes + failures,
\* which the request model accepts.
QuestionArmSync ==
    { [question_id |-> qid, attempts |-> 1, successes |-> 1, failures |-> 0,
       total_response_time_ms |-> 1000, alpha |-> 2, beta |-> 1,
       user_confidence |-> Ratio(3, 5), last_attempted |-> Some(1),
       created_at |-> 1, updated_at |-> 1] : qid \in QuestionIds }
    \cup
    { [question_id |-> qid, attempts |-> 3, successes |-> 1, failures |-> 1,
       total_response_time_ms |-> 2000, alpha |-> 2, beta |-> 2,
       user_confidence |-> Ratio(1, 2), last_attempted |-> Null,
       created_at |-> 2, updated_at |-> 2] : qid \in QuestionIds }

\* class TopicArmSync(BaseModel)
TopicArmSync ==
    { [topic_key |-> key, topic |-> "algebra", knowledge_type |-> "concept",
       course |-> "math", attempts |-> 2, successes |-> 1, failures |-> 1,
       total_response_time_ms |-> 1500, alpha |-> 2, beta |-> 2,
       created_at |-> 1, updated_at |-> 2] : key \in TopicKeys }

\* class SyncRequest(BaseModel)
SyncRequest ==
    { request \in [last_sync_time : LastSyncTimes,
                   question_arms : SeqUpTo(QuestionArmSync, MaxBatch),
                   topic_arms : SeqUpTo(TopicArmSync, MaxBatch)] :
        Len(request.question_arms) + Len(request.topic_arms) <= MaxBatch }

\* ---------------------------------------------------------------- arm store
\* Columns of user_mab_question_arms that are declared nullable=False.
QuestionArmNotNull == {"user_id", "question_id", "difficulty"}

\* Mapped columns of class UserMABTopicArm.
TopicArmColumns ==
    {"id", "user_id", "topic_key", "course", "topic", "knowledge_type",
     "attempts", "successes", "failures", "total_response_time_ms",
     "alpha", "beta", "last_updated", "created_at"}

\* The difficulty tag of each question (questions.difficulty); "easy" is the
\* tag the seed data uses, which is none of the three prior categories.
QuestionDifficulty(qid) == IF qid = "q1" THEN "beginner" ELSE "easy"

\* UserMABQuestionArm.initialize_prior: <<alpha, beta>> for a difficulty tag.
InitializePrior(difficulty) ==
    IF difficulty = "beginner" THEN <<7, 3>>
    ELSE IF difficulty = "intermediate" THEN <<5, 5>>
    ELSE IF difficulty = "advanced" THEN <<3, 7>>
    ELSE <<5, 5>>

\* round(successes / attempts, 3) in thousandths (half rounds up; the
\* counters of this model never produce a tie).
SuccessRate(successes, attempts) ==
    IF attempts > 0 THEN (2000 * successes + attempts) \div (2 * attempts) ELSE 0

\* datetime.isoformat() of a nullable DateTime column.
IsoFormat(dt) == IF dt = Null THEN Null ELSE Some([iso |-> dt[1]])

\* UserMABQuestionArm.to_dict
QuestionArmToDict(row) ==
    [user_id |-> row.user_id, question_id |-> row.question_id,
     difficulty |-> row.difficulty, attempts |-> row.attempts,
     successes |-> row.successes, failures |-> row.failures,
     total_response_time_ms |-> row.total_response_time_ms,
     alpha |-> row.alpha, beta |-> row.beta,
     user_confidence |-> row.user_confidence,
     last_attempted |-> IsoFormat(row.last_attempted),
     success_rate |-> SuccessRate(row.successes, row.attempts)]

\* UserMABTopicArm.to_dict
TopicArmToDict(row) ==
    [user_id |-> row.user_id, topic_key |-> row.topic_key,
     course |-> row.course, topic |-> row.topic,
     knowledge_type |-> row.knowledge_type, attempts |-> row.attempts,
     successes |-> row.successes, failures |-> row.failures,
     total_response_time_ms |-> row.total_response_time_ms,
     alpha |-> row.alpha, beta |-> row.beta,
     last_updated |-> IsoFormat(row.last_updated)]

\* --------------------------------------------------- sync_mab_state handler
\* The request-scoped AsyncSession: its view of the two tables (committed
\* rows plus this call's own changes), the keys added and not yet flushed,
\* the handler's conflicts_resolved counter, and the exception that ended
\* the call ("" while none was raised).
NewSession(q, t) ==
    [q |-> q, t |-> t, pending |-> {}, conflicts_resolved |-> 0, error |-> ""]

\* The flush that precedes every SELECT (autoflush) and the COMMIT: the
\* pending INSERTs are sent, and a row with NULL in a NOT NULL column is
\* refused by the database.
AutoFlush(sess) ==
    IF \E key \in sess.pending :
          \E col \in QuestionArmNotNull : sess.q[key][col] = NullStr
    THEN [sess EXCEPT !.error = "IntegrityError"]
    ELSE [sess EXCEPT !.pending = {}]

\* The row built by UserMABQuestionArm(user_id=..., ...) in the "New record"
\* branch: the constructor is given no difficulty.
NewQuestionArm(user_id, arm) ==
    [user_id |-> user_id, question_id |-> arm.question_id,
     difficulty |-> NullStr,
     attempts |-> arm.attempts, successes |-> arm.successes,
     failures |-> arm.failures,
     total_response_time_ms |-> arm.total_response_time_ms,
     alpha |-> arm.alpha, beta |-> arm.beta,
     user_confidence |-> arm.user_confidence,
     last_attempted |-> IF arm.last_attempted # Null /\ arm.last_attempted[1] # 0
                        THEN Some(FromTimestamp(arm.last_attempted[1]))
                        ELSE Null,
     created_at |-> Some(FromTimestamp(arm.created_at)),
     updated_at |-> Some(FromTimestamp(arm.updated_at))]

\* The field assignments of the "last write wins" branch for a question arm.
OverwriteQuestionArm(existing_arm, arm) ==
    [existing_arm EXCEPT
       !.attempts = arm.attempts,
       !.successes = arm.successes,
       !.failures = arm.failures,
       !.total_response_time_ms = arm.total_response_time_ms,
       !.alpha = arm.alpha,
       !.beta = arm.beta,
       !.user_confidence = arm.user_confidence,
       !.last_attempted = IF arm.last_attempted # Null /\ arm.last_attempted[1] # 0
                          THEN Some(FromTimestamp(arm.last_attempted[1]))
                          ELSE Null,
       !.updated_at = Some(FromTimestamp(arm.updated_at))]

\* Mutant of ClientWins: the snapshot that arrives last wins, whatever its
\* updated_at.
ArrivalWins(stored_updated_at, client_updated) == TRUE

\* The conflict test of both loops: the stored updated_at is None or the
\* client's is strictly later.
ClientWins(stored_updated_at, client_updated) ==
    stored_updated_at = Null \/ client_updated > stored_updated_at[1]

\* Mutant of MergeQuestionArm: conflicts_resolved is incremented for every
\* snapshot that meets a stored arm, also when the snapshot is discarded.
MergeQuestionArmCountsDiscarded(sess, user_id, arm) ==
    LET flushed == AutoFlush(sess)
        key == <<user_id, arm.question_id>>
        client_updated == FromTimestamp(arm.updated_at)
    IN  IF flushed.error # "" THEN flushed
        ELSE IF key \in DOMAIN flushed.q
        THEN IF ClientWins(flushed.q[key].updated_at, client_updated)
             THEN [flushed EXCEPT
                     !.q[key] = OverwriteQuestionArm(flushed.q[key], arm),
                     !.conflicts_resolved = @ + 1]
             ELSE [flushed EXCEPT !.conflicts_resolved = @ + 1]
        ELSE [flushed EXCEPT
                !.q = @ @@ (key :> NewQuestionArm(user_id, arm)),
                !.pending = @ \cup {key}]

\* One iteration of "for arm in request.question_arms".
MergeQuestionArm(sess, user_id, arm) ==
    LET flushed == AutoFlush(sess)
        key == <<user_id, arm.question_id>>
        client_updated == FromTimestamp(arm.updated_at)
    IN  IF flushed.error # "" THEN flushed
        ELSE IF key \in DOMAIN flushed.q
        THEN IF ClientWins(flushed.q[key].updated_at, client_updated)
             THEN [flushed EXCEPT
                     !.q[key] = OverwriteQuestionArm(flushed.q[key], arm),
                     !.conflicts_resolved = @ + 1]
             ELSE flushed
        ELSE [flushed EXCEPT
                !.q = @ @@ (key :> NewQuestionArm(user_id, arm)),
                !.pending = @ \cup {key}]

\* The row built by UserMABTopicArm(..., updated_at=client_updated); the
\* value lands in the table's timestamp column.
NewTopicArm(user_id, arm) ==
    [user_id |-> user_id, topic_key |-> arm.topic_key,
     course |-> arm.course, topic |-> arm.topic,
     knowledge_type |-> arm.knowledge_type,
     attempts |-> arm.attempts, successes |-> arm.successes,
     failures |-> arm.failures,
     total_response_time_ms |-> arm.total_response_time_ms,
     alpha |-> arm.alpha, beta |-> arm.beta,
     last_updated |-> Some(FromTimestamp(arm.updated_at)),
     created_at |-> Some(FromTimestamp(arm.created_at))]

\* The field assignments of the "last write wins" branch for a topic arm.
OverwriteTopicArm(existing_arm, arm) ==
    [existing_arm EXCEPT
       !.attempts = arm.attempts,
       !.successes = arm.successes,
       !.failures = arm.failures,
       !.total_response_time_ms = arm.total_response_time_ms,
       !.alpha = arm.alpha,
       !.beta = arm.beta,
       !.topic = arm.topic,
       !.knowledge_type = arm.knowledge_type,
       !.course = arm.course,
       !.last_updated = Some(FromTimestamp(arm.updated_at))]

\* One iteration of "for arm in request.topic_arms".  UserMABTopicArm maps
\* no updated_at: reading existing_arm.updated_at raises AttributeError and
\* the constructor refuses the updated_at keyword with TypeError.
MergeTopicArm(sess, user_id, arm) ==
    LET flushed == AutoFlush(sess)
        key == <<user_id, arm.topic_key>>
        client_updated == FromTimestamp(arm.updated_at)
    IN  IF flushed.error # "" THEN flushed
        ELSE IF key \in DOMAIN flushed.t
        THEN IF "updated_at" \notin TopicArmColumns
             THEN [flushed EXCEPT !.error = "AttributeError"]
             ELSE IF ClientWins(flushed.t[key].last_updated, client_updated)
             THEN [flushed EXCEPT
                     !.t[key] = OverwriteTopicArm(flushed.t[key], arm),
                     !.conflicts_resolved = @ + 1]
             ELSE flushed
        ELSE IF "updated_at" \notin TopicArmColumns
             THEN [flushed EXCEPT !.error = "TypeError"]
             ELSE [flushed EXCEPT !.t = @ @@ (key :> NewTopicArm(user_id, arm))]

\* The two loops, in list order; an exception ends the handler.
RECURSIVE MergeQuestionArms(_, _, _, _)
MergeQuestionArms(sess, user_id, arms, i) ==
    IF i > Len(arms) \/ sess.error # "" THEN sess
    ELSE MergeQuestionArms(MergeQuestionArm(sess, user_id, arms[i]),
                           user_id, arms, i + 1)

RECURSIVE MergeTopicArms(_, _, _, _)
MergeTopicArms(sess, user_id, arms, i) ==
    IF i > Len(arms) \/ sess.error # "" THEN sess
    ELSE MergeTopicArms(MergeTopicArm(sess, user_id, arms[i]),
                        user_id, arms, i + 1)

\* last_sync_datetime of the handler: None for last_sync_time <= 0.
LastSyncDatetime(last_sync_time) ==
    IF last_sync_time > 0 THEN Some(FromTimestamp(last_sync_time)) ELSE Null

\* Mutant of ServerQuestionArms: the delta query without its user_id filter.
ServerQuestionArmsOfAnyUser(q, user_id, last_sync_datetime) ==
    { QuestionArmToDict(q[key]) :
        key \in { k \in DOMAIN q :
                    \/ last_sync_datetime = Null
                    \/ /\ q[k].updated_at # Null
                       /\ q[k].updated_at[1] > last_sync_datetime[1] } }

\* "Fetch Server Updates", question arms: the user's rows with
\* updated_at > last_sync_datetime (a NULL updated_at compares as unknown and
\* is not selected), or all of them when last_sync_datetime is None.
ServerQuestionArms(q, user_id, last_sync_datetime) ==
    { QuestionArmToDict(q[key]) :
        key \in { k \in DOMAIN q :
                    /\ k[1] = user_id
                    /\ \/ last_sync_datetime = Null
                       \/ /\ q[k].updated_at # Null
                          /\ q[k].updated_at[1] > last_sync_datetime[1] } }

\* "Fetch Server Updates", topic arms, for a class that maps updated_at.
ServerTopicArms(t, user_id, last_sync_datetime) ==
    { TopicArmToDict(t[key]) :
        key \in { k \in DOMAIN t :
                    /\ k[1] = user_id
                    /\ \/ last_sync_datetime = Null
                       \/ /\ t[k].last_updated # Null
                          /\ t[k].last_updated[1] > last_sync_datetime[1] } }

\* Where a database round trip may fail: "merge" is a SELECT of the two
\* loops, "commit" the COMMIT, "query" a SELECT of the delta queries.
Faults == {"none", "merge", "commit", "query"}

\* The outcome of a call that raised: FastAPI answers 500; q and t are the
\* committed tables as the call leaves them.
Failed(phase, error, q, t, committed) ==
    [status |-> "error", phase |-> phase, error |-> error,
     committed |-> committed, q |-> q, t |-> t, server_time |-> 0,
     question_arms |-> {}, topic_arms |-> {}, conflicts_resolved |-> 0]

\* Mutant of Rollback: every flush is committed at once (autocommit), so the
\* changes made before the failure stay.
RollbackKeepsFlushed(sess, q, t) == [q |-> sess.q, t |-> sess.t]

\* get_session closes the session of a call that raised before COMMIT
\* returned: the open transaction, flushed rows included, is rolled back and
\* the committed tables q and t stand.
Rollback(sess, q, t) == [q |-> q, t |-> t]

\* async def sync_mab_state(request, session, current_user): the whole
\* handler on committed tables q and t at server time now.
SyncMabState(q, t, user_id, request, now, fault) ==
    LET server_time == now
        last_sync_datetime == LastSyncDatetime(request.last_sync_time)
        merged_q == MergeQuestionArms(NewSession(q, t), user_id,
                                      request.question_arms, 1)
        merged == MergeTopicArms(merged_q, user_id, request.topic_arms, 1)
        flushed == AutoFlush(merged)
        undone == Rollback(merged, q, t)
    IN  IF merged.error # ""
        THEN Failed("merge", merged.error, undone.q, undone.t, FALSE)
        ELSE IF fault = "merge"
        THEN Failed("merge", "OperationalError", undone.q, undone.t, FALSE)
        ELSE IF flushed.error # ""
        THEN Failed("commit", flushed.error, undone.q, undone.t, FALSE)
        ELSE IF fault = "commit"
        THEN Failed("commit", "OperationalError", undone.q, undone.t, FALSE)
        ELSE IF fault = "query"
        THEN Failed("query", "OperationalError", flushed.q, flushed.t, TRUE)
        ELSE IF last_sync_datetime # Null /\ "updated_at" \notin TopicArmColumns
        THEN Failed("query", "AttributeError", flushed.q, flushed.t, TRUE)
        ELSE [status |-> "ok", phase |-> "done", error |-> "",
              committed |-> TRUE, q |-> flushed.q, t |-> flushed.t,
              server_time |-> server_time,
              question_arms |->
                  ServerQuestionArms(flushed.q, user_id, last_sync_datetime),
              topic_arms |->
                  ServerTopicArms(flushed.t, user_id, last_sync_datetime),
              conflicts_resolved |-> flushed.conflicts_resolved]

\* -------------------------------------------------------------------- state
VARIABLES
    qarms,   \* table user_mab_question_arms: <<user_id, question_id>> -> row
    tarms,   \* table user_mab_topic_arms: <<user_id, topic_key>> -> row
    now,     \* the server clock, epoch ms
    call,    \* the sync call in flight: its request and its outcome
    prior,   \* the outcome of the call that `call` re-sent verbatim
    ckpt,    \* the checkpoint a device persisted, and what was written since
    body,    \* the JSON body POSTed for the call in flight, before validation
    txns,    \* the sessions of sync calls running concurrently
    devices, \* the local copy of an arm on each device of one user
    student_responses,  \* table student_responses: the answer events
    question_metrics,   \* table question_metrics: question_id -> row
    job,     \* the difficulty calculation in progress and its outcome
    probe    \* a call of a pure function of the calculator: inputs, result

\* What no step of a sync exchange touches, and what the handlers below and
\* the arm engine never touch.
off_call == <<txns, devices, student_responses, question_metrics, job, probe>>
off_sync == <<body, off_call>>

vars == <<qarms, tarms, now, call, prior, ckpt, body, txns, devices,
          student_responses, question_metrics, job, probe>>

NoBody == [status |-> "none"]
NoJob == [status |-> "none"]
NoProbe == [status |-> "none"]
OffSyncInit ==
    /\ body = NoBody
    /\ txns = <<>>
    /\ devices = <<>>
    /\ student_responses = <<>>
    /\ question_metrics = <<>>
    /\ job = NoJob
    /\ probe = NoProbe

NoCall == [status |-> "none"]
NoCheckpoint == [status |-> "none"]

\* The value of a column with server_default / onupdate func.now().
DbNow == Some(FromTimestamp(now))

Init ==
    /\ qarms = <<>>
    /\ tarms = <<>>
    /\ now = 1
    /\ call = NoCall
    /\ prior = NoCall
    /\ ckpt = NoCheckpoint
    /\ OffSyncInit

\* ---------------------------------------------------------- arm update engine
\* Create-or-fetch of a question arm on the first observation of the pair:
\* counters from the column defaults, Beta prior from initialize_prior,
\* created_at / updated_at from server_default=func.now().
CreateQuestionArm(user_id, question_id) ==
    /\ call = NoCall
    /\ now < MaxClock
    /\ <<user_id, question_id>> \notin DOMAIN qarms
    /\ LET difficulty == QuestionDifficulty(question_id)
           prior_ab == InitializePrior(difficulty)
       IN  qarms' = qarms @@ (<<user_id, question_id>> :>
             [user_id |-> user_id, question_id |-> question_id,
              difficulty |-> difficulty,
              attempts |-> 0, successes |-> 0, failures |-> 0,
              total_response_time_ms |-> 0,
              alpha |-> prior_ab[1], beta |-> prior_ab[2],
              user_confidence |-> Ratio(1, 2),
              last_attempted |-> Null,
              created_at |-> DbNow, updated_at |-> DbNow])
    /\ now' = now + 1
    /\ UNCHANGED <<tarms, call, prior, ckpt>>
    /\ UNCHANGED off_sync

\* Create-or-fetch of a topic arm: column defaults, uniform prior 1/1.
CreateTopicArm(user_id, topic_key) ==
    /\ call = NoCall
    /\ now < MaxClock
    /\ <<user_id, topic_key>> \notin DOMAIN tarms
    /\ tarms' = tarms @@ (<<user_id, topic_key>> :>
             [user_id |-> user_id, topic_key |-> topic_key,
              course |-> "math", topic |-> "algebra",
              knowledge_type |-> "concept",
              attempts |-> 0, successes |-> 0, failures |-> 0,
              total_response_time_ms |-> 0, alpha |-> 1, beta |-> 1,
              last_updated |-> DbNow, created_at |-> DbNow])
    /\ now' = now + 1
    /\ UNCHANGED <<qarms, call, prior, ckpt>>
    /\ UNCHANGED off_sync

\* record_response(arm, is_correct, response_time_ms) on an existing
\* question arm; updated_at follows onupdate=func.now().
RecordedArmFailuresKept(arm, is_correct, response_time_ms, at) ==
    [arm EXCEPT
       !.attempts = @ + 1,
       !.successes = IF is_correct THEN @ + 1 ELSE @,
       !.total_response_time_ms = @ + response_time_ms,
       !.alpha = IF is_correct THEN @ + 1 ELSE @,
       !.beta = IF is_correct THEN @ ELSE @ + 1,
       !.user_confidence = Ratio(arm.alpha + (IF is_correct THEN 1 ELSE 0),
                                 arm.alpha + arm.beta + 1),
       !.last_attempted = at,
       !.updated_at = at]

RecordedArm(arm, is_correct, response_time_ms, at) ==
    LET alpha == IF is_correct THEN arm.alpha + 1 ELSE arm.alpha
        beta == IF is_correct THEN arm.beta ELSE arm.beta + 1
    IN  [arm EXCEPT
           !.attempts = @ + 1,
           !.successes = IF is_correct THEN @ + 1 ELSE @,
           !.failures = IF is_correct THEN @ ELSE @ + 1,
           !.total_response_time_ms = @ + response_time_ms,
           !.alpha = alpha,
           !.beta = beta,
           !.user_confidence = Ratio(alpha, alpha + beta),
           !.last_attempted = at,
           !.updated_at = at]

RecordResponse(user_id, question_id, is_correct, response_time_ms) ==
    /\ call = NoCall
    /\ now < MaxClock
    /\ <<user_id, question_id>> \in DOMAIN qarms
    /\ qarms' = [qarms EXCEPT ![<<user_id, question_id>>] =
                    RecordedArm(@, is_correct, response_time_ms, DbNow)]
    /\ now' = now + 1
    /\ UNCHANGED <<tarms, call, prior, ckpt>>
    /\ UNCHANGED off_sync

\* ------------------------------------------------------------- sync exchange
\* Keys of the user's question arms that differ between two table states.
Written(before, after, user_id) ==
    { k \in DOMAIN after :
        k[1] = user_id /\ (k \notin DOMAIN before \/ before[k] # after[k]) }

\* What the server wrote for this user since the persisted checkpoint, when
\* the request's last_sync_time is that checkpoint.
Owed(user_id, request) ==
    IF /\ ckpt.status # "none"
       /\ ckpt.user_id = user_id
       /\ request.last_sync_time = ckpt.server_time
    THEN ckpt.written ELSE {}

\* One execution of POST /sync/mab for the verified user.  A database fault
\* counts only if the call met it: one the handler never reached is the
\* call without a fault.
Handle(user_id, request, fault) ==
    LET out == SyncMabState(qarms, tarms, user_id, request, now, fault)
    IN  /\ fault # "none" => out.error = "OperationalError"
        /\ qarms' = out.q
        /\ tarms' = out.t
        /\ now' = now + 1
        /\ call' = [status |-> out.status, phase |-> out.phase,
                    error |-> out.error, committed |-> out.committed,
                    server_time |-> out.server_time,
                    question_arms |-> out.question_arms,
                    topic_arms |-> out.topic_arms,
                    conflicts_resolved |-> out.conflicts_resolved,
                    user_id |-> user_id, request |-> request,
                    pre_q |-> qarms, pre_t |-> tarms,
                    owed |-> Owed(user_id, request)]
        /\ ckpt' = IF ckpt.status # "none" /\ ckpt.user_id = user_id
                   THEN [ckpt EXCEPT
                           !.written = @ \cup Written(qarms, out.q, user_id)]
                   ELSE ckpt

Sync(user_id, request, fault) ==
    /\ call = NoCall
    /\ now < MaxClock
    /\ fault = "merge" =>
          Len(request.question_arms) + Len(request.topic_arms) > 0
    /\ Handle(user_id, request, fault)
    /\ prior' = NoCall
    /\ UNCHANGED off_sync

\* The client re-sends the request of the call in flight verbatim (a retry).
Replay ==
    /\ call.status # "none"
    /\ prior = NoCall
    /\ now < MaxClock
    /\ Handle(call.user_id, call.request, "none")
    /\ prior' = call
    /\ UNCHANGED off_sync

\* The device that made the call persists the returned server_time as its
\* checkpoint for its next call.
Persist ==
    /\ call.status = "ok"
    /\ ckpt = NoCheckpoint
    /\ ckpt' = [status |-> "set", user_id |-> call.user_id,
                server_time |-> call.server_time, written |-> {}]
    /\ UNCHANGED <<qarms, tarms, now, call, prior>>
    /\ UNCHANGED off_sync

\* The client has taken the response (or the error); the exchange is over.
Deliver ==
    /\ call.status # "none"
    /\ call' = NoCall
    /\ prior' = NoCall
    /\ body' = NoBody
    /\ UNCHANGED <<qarms, tarms, now, ckpt>>
    /\ UNCHANGED off_call

\* The server under the engine and the sync calls of every user; the
\* device-side checkpoint belongs to SpecDevice.
Next ==
    \/ \E u \in Users, qid \in QuestionIds : CreateQuestionArm(u, qid)
    \/ \E u \in Users, key \in TopicKeys : CreateTopicArm(u, key)
    \/ \E u \in Users, qid \in QuestionIds, ok \in BOOLEAN, ms \in ResponseTimes :
          RecordResponse(u, qid, ok, ms)
    \/ /\ call = NoCall
       /\ \E u \in Users, request \in SyncRequest, fault \in Faults :
             Sync(u, request, fault)
    \/ Replay
    \/ Deliver

Spec == Init /\ [][Next]_vars

\* One device of one user against a healthy database, from clock 0: the
\* checkpoint protocol over four requests.
InitDevice ==
    /\ qarms = <<>>
    /\ tarms = <<>>
    /\ now = 0
    /\ call = NoCall
    /\ prior = NoCall
    /\ ckpt = NoCheckpoint
    /\ OffSyncInit

NextDevice ==
    \/ \E qid \in QuestionIds : CreateQuestionArm("u1", qid)
    \/ /\ call = NoCall
       /\ \E request \in SyncRequest : Sync("u1", request, "none")
    \/ Persist
    \/ Deliver

SpecDevice == InitDevice /\ [][NextDevice]_vars

\* ------------------------------------------------------ request validation
\* A JSON value of a request body: <<"int", n>>, <<"float", ratio>>,
\* <<"str", s>> or <<"null">>.  A JSON object is a function on the names it
\* carries; a field it lacks is outside its DOMAIN.
JsonInt(n) == <<"int", n>>
JsonFloat(r) == <<"float", r>>
JsonStr(s) == <<"str", s>>
JsonNull == <<"null">>

\* The strings the request models convert to a number, with their value
\* (int("3"), float("3")); any other string is refused for a number.
NumericStrings == ("3" :> 3)

\* The declared type of every field of QuestionArmSync and TopicArmSync.
QuestionArmSyncFields ==
    [question_id |-> "str", attempts |-> "int", successes |-> "int",
     failures |-> "int", total_response_time_ms |-> "int",
     alpha |-> "float", beta |-> "float", user_confidence |-> "float",
     last_attempted |-> "optional_int", created_at |-> "int",
     updated_at |-> "int"]
TopicArmSyncFields ==
    [topic_key |-> "str", topic |-> "str", knowledge_type |-> "str",
     course |-> "str", attempts |-> "int", successes |-> "int",
     failures |-> "int", total_response_time_ms |-> "int",
     alpha |-> "float", beta |-> "float", created_at |-> "int",
     updated_at |-> "int"]

Invalid == [ok |-> FALSE, value |-> 0]
Valid(v) == [ok |-> TRUE, value |-> v]

\* Validation of one field of declared type `type` of the JSON object obj:
\* numbers are accepted for int and float, a numeric string is converted,
\* an Optional field may be absent or null, anything else is an error.
ParseField(type, obj, name) ==
    IF name \notin DOMAIN obj
    THEN IF type = "optional_int" THEN Valid(Null) ELSE Invalid
    ELSE LET json == obj[name]
             tag == json[1]
         IN  CASE type = "str" ->
                    IF tag = "str" THEN Valid(json[2]) ELSE Invalid
               [] type = "int" ->
                    IF tag = "int" THEN Valid(json[2])
                    ELSE IF tag = "str" /\ json[2] \in DOMAIN NumericStrings
                    THEN Valid(NumericStrings[json[2]])
                    ELSE Invalid
               [] type = "float" ->
                    IF tag \in {"int", "float"} THEN Valid(json[2])
                    ELSE IF tag = "str" /\ json[2] \in DOMAIN NumericStrings
                    THEN Valid(NumericStrings[json[2]])
                    ELSE Invalid
               [] type = "optional_int" ->
                    IF tag = "null" THEN Valid(Null)
                    ELSE IF tag = "int" THEN Valid(Some(json[2]))
                    ELSE IF tag = "str" /\ json[2] \in DOMAIN NumericStrings
                    THEN Valid(Some(NumericStrings[json[2]]))
                    ELSE Invalid

\* Validation of one snapshot against its model.
ParseModel(fields, obj) ==
    IF \A name \in DOMAIN fields : ParseField(fields[name], obj, name).ok
    THEN Valid([name \in DOMAIN fields |->
                  ParseField(fields[name], obj, name).value])
    ELSE Invalid

\* Mutant of ParseList: an element that does not validate is dropped and the
\* rest of the list is kept.
ParseListSkipsInvalid(fields, obj, name) ==
    IF name \notin DOMAIN obj THEN Valid(<<>>)
    ELSE LET items == obj[name]
             kept == SelectSeq([i \in 1..Len(items) |->
                                  ParseModel(fields, items[i])],
                               LAMBDA parsed : parsed.ok)
         IN  Valid([i \in 1..Len(kept) |-> kept[i].value])

\* Validation of a List[...] field with default []: every element must
\* validate.
ParseList(fields, obj, name) ==
    IF name \notin DOMAIN obj THEN Valid(<<>>)
    ELSE LET items == obj[name]
         IN  IF \A i \in 1..Len(items) : ParseModel(fields, items[i]).ok
             THEN Valid([i \in 1..Len(items) |->
                           ParseModel(fields, items[i]).value])
             ELSE Invalid

\* request: SyncRequest, the body parameter of sync_mab_state: FastAPI
\* validates the whole body against the model before it calls the handler.
ParseSyncRequest(json) ==
    LET last_sync_time == ParseField("int", json, "last_sync_time")
        question_arms == ParseList(QuestionArmSyncFields, json, "question_arms")
        topic_arms == ParseList(TopicArmSyncFields, json, "topic_arms")
    IN  IF last_sync_time.ok /\ question_arms.ok /\ topic_arms.ok
        THEN Valid([last_sync_time |-> last_sync_time.value,
                    question_arms |-> question_arms.value,
                    topic_arms |-> topic_arms.value])
        ELSE Invalid

\* What a client's json encoder sends for a typed snapshot and request.
EncodeField(type, name, value) ==
    CASE type = "str" -> JsonStr(value)
      [] type = "int" -> JsonInt(value)
      [] type = "float" ->
           IF name = "user_confidence" THEN JsonFloat(value) ELSE JsonInt(value)
      [] type = "optional_int" ->
           IF value = Null THEN JsonNull ELSE JsonInt(value[1])

ToJson(fields, arm) ==
    [name \in DOMAIN fields |-> EncodeField(fields[name], name, arm[name])]

Serialize(request) ==
    [last_sync_time |-> JsonInt(request.last_sync_time),
     question_arms |-> [i \in 1..Len(request.question_arms) |->
                          ToJson(QuestionArmSyncFields, request.question_arms[i])],
     topic_arms |-> [i \in 1..Len(request.topic_arms) |->
                       ToJson(TopicArmSyncFields, request.topic_arms[i])]]

\* The ways one field of a body departs from what the encoder sends: the
\* field is left out, is null, is a word, or is a number in quotes.
DamageKinds == {"missing", "null", "text", "numeric"}
DamagedQuestionFields == {"question_id", "attempts", "alpha", "last_attempted"}
DamagedTopicFields == {"topic_key", "attempts", "updated_at"}

Damage(obj, name, kind) ==
    CASE kind = "missing" -> [f \in DOMAIN obj \ {name} |-> obj[f]]
      [] kind = "null" -> [obj EXCEPT ![name] = JsonNull]
      [] kind = "text" -> [obj EXCEPT ![name] = JsonStr("abc")]
      [] kind = "numeric" -> [obj EXCEPT ![name] = JsonStr("3")]

\* The bodies a client may POST for a first sync: the encoding of a request
\* and the same with one field of the body or of one snapshot damaged.
BodiesOf(request) ==
    LET json == Serialize(request)
    IN  {json}
        \cup { Damage(json, "last_sync_time", kind) : kind \in DamageKinds }
        \cup { Damage(json, name, "missing") :
                 name \in {"question_arms", "topic_arms"} }
        \cup { [json EXCEPT !.question_arms[i[1]] = Damage(@, i[2], i[3])] :
                 i \in (1..Len(request.question_arms))
                       \X DamagedQuestionFields \X DamageKinds }
        \cup { [json EXCEPT !.topic_arms[i[1]] = Damage(@, i[2], i[3])] :
                 i \in (1..Len(request.topic_arms))
                       \X DamagedTopicFields \X DamageKinds }

Bodies == UNION { BodiesOf(request) : request \in {r \in SyncRequest : r.last_sync_time = 0} }

\* POST /sync/mab with a raw body: a body that does not validate is answered
\* 422 and sync_mab_state is not called; a valid one is handled.
Post(user_id, json) ==
    /\ call = NoCall
    /\ now < MaxClock
    /\ body' = json
    /\ prior' = NoCall
    /\ UNCHANGED off_call
    /\ LET parsed == ParseSyncRequest(json)
       IN  IF parsed.ok
           THEN Handle(user_id, parsed.value, "none")
           ELSE /\ call' = [status |-> "rejected", phase |-> "validation",
                            error |-> "RequestValidationError",
                            committed |-> FALSE, user_id |-> user_id,
                            pre_q |-> qarms, pre_t |-> tarms]
                /\ UNCHANGED <<qarms, tarms, now, ckpt>>

\* One user's raw bodies against a healthy database.
NextIngress ==
    \/ \E qid \in QuestionIds : CreateQuestionArm("u1", qid)
    \/ /\ call = NoCall
       /\ \E json \in Bodies : Post("u1", json)
    \/ Deliver

SpecIngress == Init /\ [][NextIngress]_vars

\* ------------------------------------------------- two devices of one user
Devices == {"A", "B"}
\* Device clock values (epoch ms) of local observations.
DeviceStamps == {2, 3}

\* The epoch-ms value of a stored naive DateTime.
ToTimestamp(dt) == dt \div 1000

\* The snapshot a device holds of a stored question arm.
SnapshotOf(row) ==
    [question_id |-> row.question_id, attempts |-> row.attempts,
     successes |-> row.successes, failures |-> row.failures,
     total_response_time_ms |-> row.total_response_time_ms,
     alpha |-> row.alpha, beta |-> row.beta,
     user_confidence |-> row.user_confidence,
     last_attempted |-> IF row.last_attempted = Null THEN Null
                        ELSE Some(ToTimestamp(row.last_attempted[1])),
     created_at |-> ToTimestamp(row.created_at[1]),
     updated_at |-> ToTimestamp(row.updated_at[1])]

\* Both devices of user u1 start from the stored arm of one question.
Checkout(question_id) ==
    /\ call = NoCall
    /\ devices = <<>>
    /\ <<"u1", question_id>> \in DOMAIN qarms
    /\ devices' = [d \in Devices |->
                     [arm |-> SnapshotOf(qarms[<<"u1", question_id>>]),
                      base |-> SnapshotOf(qarms[<<"u1", question_id>>]),
                      pushed |-> FALSE]]
    /\ UNCHANGED <<qarms, tarms, now, call, prior, ckpt, body>>
    /\ UNCHANGED <<txns, student_responses, question_metrics, job, probe>>

\* A device records an answer on its local copy at its own clock.
Observe(d, is_correct, response_time_ms, at) ==
    /\ devices # <<>>
    /\ ~devices[d].pushed
    /\ at > devices[d].arm.updated_at
    /\ devices' = [devices EXCEPT ![d].arm =
                     [RecordedArm(@, is_correct, response_time_ms, Some(at))
                        EXCEPT !.updated_at = at]]
    /\ UNCHANGED <<qarms, tarms, now, call, prior, ckpt, body>>
    /\ UNCHANGED <<txns, student_responses, question_metrics, job, probe>>

\* A device syncs its local copy: one question snapshot, no checkpoint.
Push(d) ==
    /\ call = NoCall
    /\ now < MaxClock
    /\ devices # <<>>
    /\ ~devices[d].pushed
    /\ Handle("u1", [last_sync_time |-> 0,
                     question_arms |-> <<devices[d].arm>>,
                     topic_arms |-> <<>>], "none")
    /\ prior' = NoCall
    /\ devices' = [devices EXCEPT ![d].pushed = TRUE]
    /\ UNCHANGED <<body, txns, student_responses, question_metrics, job, probe>>

NextTwoDevices ==
    \/ \E qid \in QuestionIds : CreateQuestionArm("u1", qid)
    \/ \E qid \in QuestionIds : Checkout(qid)
    \/ \E d \in Devices, ok \in BOOLEAN, ms \in ResponseTimes, at \in DeviceStamps :
          Observe(d, ok, ms, at)
    \/ \E d \in Devices : Push(d)
    \/ Deliver

SpecTwoDevices == Init /\ [][NextTwoDevices]_vars

\* --------------------------------------------------- binary64 arithmetic
\* Python floats are IEEE 754 binary64 numbers, and every operation the
\* calculator applies to them (+, -, *, /, math.sqrt, z**2) rounds its exact
\* result to the nearest such number, ties to even.  A significand has 53
\* bits, more than a TLC integer holds, so naturals are kept as sequences of
\* limbs, least significant first, without leading zero limbs.

LimbBits == 15

Limb == 2 ^ LimbBits

Pow2(k) == 2 ^ k

IntMin(m, n) == IF m <= n THEN m ELSE n

IntMax(m, n) == IF m >= n THEN m ELSE n

RECURSIVE IntBitLen(_)
IntBitLen(n) == IF n = 0 THEN 0 ELSE 1 + IntBitLen(n \div 2)

RECURSIVE BNorm(_)
BNorm(a) ==
    IF a = <<>> THEN a
    ELSE IF a[Len(a)] = 0 THEN BNorm(SubSeq(a, 1, Len(a) - 1)) ELSE a

BFromInt(n) ==
    BNorm(<<n % Limb, (n \div Limb) % Limb, n \div (Limb * Limb)>>)

BOne == <<1>>

BDigit(a, i) == IF i <= Len(a) THEN a[i] ELSE 0

\* number of bits of a; 0 for zero
BLen(a) ==
    IF a = <<>> THEN 0 ELSE LimbBits * (Len(a) - 1) + IntBitLen(a[Len(a)])

\* bit i of a, bit 0 the least significant
BBit(a, i) == (BDigit(a, (i \div LimbBits) + 1) \div Pow2(i % LimbBits)) % 2

RECURSIVE BAddFrom(_, _, _, _)
BAddFrom(a, b, i, carry) ==
    IF i > IntMax(Len(a), Len(b))
    THEN IF carry = 0 THEN <<>> ELSE <<carry>>
    ELSE <<(BDigit(a, i) + BDigit(b, i) + carry) % Limb>>
         \o BAddFrom(a, b, i + 1,
                     (BDigit(a, i) + BDigit(b, i) + carry) \div Limb)

BAdd(a, b) == BAddFrom(a, b, 1, 0)

RECURSIVE BSubFrom(_, _, _, _)
BSubFrom(a, b, i, borrow) ==
    IF i > Len(a) THEN <<>>
    ELSE IF a[i] - BDigit(b, i) - borrow < 0
         THEN <<a[i] - BDigit(b, i) - borrow + Limb>>
              \o BSubFrom(a, b, i + 1, 1)
         ELSE <<a[i] - BDigit(b, i) - borrow>> \o BSubFrom(a, b, i + 1, 0)

\* a - b for a >= b
BSub(a, b) == BNorm(BSubFrom(a, b, 1, 0))

RECURSIVE BCmpFrom(_, _, _)
BCmpFrom(a, b, i) ==
    IF i = 0 THEN 0
    ELSE IF a[i] < b[i] THEN -1
    ELSE IF a[i] > b[i] THEN 1
    ELSE BCmpFrom(a, b, i - 1)

\* -1, 0 or 1 as a < b, a = b or a > b
BCmp(a, b) ==
    IF Len(a) < Len(b) THEN -1
    ELSE IF Len(a) > Len(b) THEN 1
    ELSE BCmpFrom(a, b, Len(a))

RECURSIVE BMulSmallFrom(_, _, _, _)
BMulSmallFrom(a, k, i, carry) ==
    IF i > Len(a)
    THEN IF carry = 0 THEN <<>> ELSE <<carry>>
    ELSE <<(a[i] * k + carry) % Limb>>
         \o BMulSmallFrom(a, k, i + 1, (a[i] * k + carry) \div Limb)

\* a * k for 0 <= k < Limb
BMulSmall(a, k) == BNorm(BMulSmallFrom(a, k, 1, 0))

BShlLimbs(a, n) == IF a = <<>> THEN a ELSE [i \in 1..n |-> 0] \o a

RECURSIVE BMulFrom(_, _, _)
BMulFrom(a, b, i) ==
    IF i > Len(b) THEN <<>>
    ELSE BAdd(BShlLimbs(BMulSmall(a, b[i]), i - 1), BMulFrom(a, b, i + 1))

BMul(a, b) == BMulFrom(a, b, 1)

\* a * 2^k
BShl(a, k) == BShlLimbs(BMulSmall(a, Pow2(k % LimbBits)), k \div LimbBits)

BShrBits(d, r) ==
    BNorm([i \in 1..Len(d) |->
             (d[i] \div Pow2(r))
             + (BDigit(d, i + 1) % Pow2(r)) * Pow2(LimbBits - r)])

\* a \div 2^k
BShr(a, k) ==
    BShrBits(IF k \div LimbBits >= Len(a) THEN <<>>
             ELSE SubSeq(a, (k \div LimbBits) + 1, Len(a)),
             k % LimbBits)

\* a % 2^k
BLowBits(a, k) ==
    BNorm([i \in 1..IntMin(Len(a), (k \div LimbBits) + 1) |->
             IF i <= k \div LimbBits THEN a[i]
             ELSE a[i] % Pow2(k % LimbBits)])

\* The next limb of a quotient, r < b * Limb: the two leading limbs of r
\* over the leading limb of b never fall short of it, and overshoot by at
\* most 2 once b's leading limb has its top bit set (Knuth 4.3.1, Theorem B).
RECURSIVE BDivFix(_, _, _)
BDivFix(r, b, d) ==
    IF BCmp(BMulSmall(b, d), r) <= 0 THEN d ELSE BDivFix(r, b, d - 1)

BDivDigit(r, b) ==
    BDivFix(r, b,
            IntMin((BDigit(r, Len(b) + 1) * Limb + BDigit(r, Len(b)))
                       \div b[Len(b)],
                   Limb - 1))

\* the running remainder with limb j of a brought down
BDivBring(a, j, r) == BNorm(<<a[j]>> \o r)

\* Long division from limb j of a down, one limb of the quotient at a time:
\* q the limbs found so far, r the running remainder, r < b
RECURSIVE BDivFrom(_, _, _, _, _)
BDivNext(a, b, j, q, r, d) ==
    IF d = 0 THEN BDivFrom(a, b, j - 1, <<0>> \o q, r)
    ELSE BDivFrom(a, b, j - 1, <<d>> \o q, BSub(r, BMulSmall(b, d)))

BDivFrom(a, b, j, q, r) ==
    IF j = 0 THEN <<q, r>>
    ELSE IF Len(r) < Len(b) - 1
         THEN BDivFrom(a, b, j - 1, <<0>> \o q, BDivBring(a, j, r))
         ELSE BDivNext(a, b, j, q, BDivBring(a, j, r),
                       BDivDigit(BDivBring(a, j, r), b))

\* the leading Len(b) - 1 limbs of a are less than b and start as remainder
BDivRun(a, b) ==
    IF Len(a) < Len(b) THEN <<<<>>, a>>
    ELSE BDivFrom(a, b, Len(a) - Len(b) + 1, <<>>,
                  SubSeq(a, Len(a) - Len(b) + 2, Len(a)))

BDivShifted(qr, s) == <<BNorm(qr[1]), BShr(qr[2], s)>>

BDivBy(a, b, s) == BDivShifted(BDivRun(BShl(a, s), BShl(b, s)), s)

\* <<a \div b, a % b>> for b > 0, on operands shifted until b's leading limb
\* has its top bit set
BDivMod(a, b) == BDivBy(a, b, LimbBits - IntBitLen(b[Len(b)]))

\* Newton's iteration on integers, from a start x above the root: the next
\* value (x + a \div x) \div 2 is below x exactly if a \div x is
RECURSIVE BSqrtFrom(_, _)
BSqrtNext(a, x, qr) ==
    IF BCmp(qr[1], x) >= 0 THEN x
    ELSE BSqrtFrom(a, BShr(BAdd(x, qr[1]), 1))

BSqrtFrom(a, x) == BSqrtNext(a, x, BDivMod(a, x))

\* the integer part of the square root of a
BSqrt(a) ==
    IF a = <<>> THEN a ELSE BSqrtFrom(a, BShl(BOne, (BLen(a) + 1) \div 2))

\* A float is [neg, m, e] and stands for (-1)^neg * m * 2^e; m has exactly
\* Precision bits, or is zero (and then e = 0 and neg = FALSE: the code never
\* tells -0.0 from 0.0).  Exponents stay far from the range limits in every
\* computation below, so overflow and subnormals are not represented.
Precision == 53

FZero == [neg |-> FALSE, m |-> <<>>, e |-> 0]

\* (m + d) * 2^e, 0 <= d < 1 and d > 0 iff sticky, rounded to nearest, ties
\* to even; an inexact m is passed with at least Precision + 2 bits.  The
\* low k bits go: q is what stays, half compares what goes with 2^(k-1).
FRoundCarry(neg, q, e) ==
    IF BLen(q) > Precision
    THEN [neg |-> neg, m |-> BShr(q, 1), e |-> e + 1]
    ELSE [neg |-> neg, m |-> q, e |-> e]

FRoundUp(neg, q, e, half, sticky) ==
    FRoundCarry(neg,
                IF half > 0 \/ (half = 0 /\ (sticky \/ BBit(q, 0) = 1))
                THEN BAdd(q, BOne) ELSE q,
                e)

FRoundCut(neg, m, e, k, sticky, q) ==
    FRoundUp(neg, q, e + k,
             BCmp(BLowBits(m, k), BShl(BOne, k - 1)), sticky)

FRoundLen(neg, m, e, sticky, len) ==
    IF len <= Precision
    THEN [neg |-> neg, m |-> BShl(m, Precision - len),
          e |-> e - (Precision - len)]
    ELSE FRoundCut(neg, m, e, len - Precision, sticky,
                   BShr(m, len - Precision))

FRound(neg, m, e, sticky) ==
    IF m = <<>> THEN FZero ELSE FRoundLen(neg, m, e, sticky, BLen(m))

\* float(n) for an int n
FInt(n) == FRound(n < 0, BFromInt(IF n < 0 THEN -n ELSE n), 0, FALSE)

FNeg(x) == IF x.m = <<>> THEN x ELSE [x EXCEPT !.neg = ~x.neg]

\* -1, 0 or 1 as |x| < |y|, |x| = |y| or |x| > |y|
FCmpAbs(x, y) ==
    IF x.m = <<>> THEN (IF y.m = <<>> THEN 0 ELSE -1)
    ELSE IF y.m = <<>> THEN 1
    ELSE IF x.e < y.e THEN -1
    ELSE IF x.e > y.e THEN 1
    ELSE BCmp(x.m, y.m)

FCmp(x, y) ==
    IF x.neg /\ ~y.neg THEN -1
    ELSE IF ~x.neg /\ y.neg THEN 1
    ELSE IF x.neg THEN -FCmpAbs(x, y)
    ELSE FCmpAbs(x, y)

FLe(x, y) == FCmp(x, y) <= 0

FLt(x, y) == FCmp(x, y) < 0

\* the sum of two numbers with significands mx, my over the same exponent
FAddAligned(xneg, mx, yneg, my, e) ==
    FRound(IF xneg = yneg \/ BCmp(mx, my) >= 0 THEN xneg ELSE yneg,
           IF xneg = yneg THEN BAdd(mx, my)
           ELSE IF BCmp(mx, my) >= 0 THEN BSub(mx, my)
           ELSE BSub(my, mx),
           e, FALSE)

FAdd(x, y) ==
    IF x.m = <<>> THEN y
    ELSE IF y.m = <<>> THEN x
    ELSE FAddAligned(x.neg, BShl(x.m, x.e - IntMin(x.e, y.e)),
                     y.neg, BShl(y.m, y.e - IntMin(x.e, y.e)),
                     IntMin(x.e, y.e))

FSub(x, y) == FAdd(x, FNeg(y))

FMul(x, y) ==
    IF x.m = <<>> \/ y.m = <<>> THEN FZero
    ELSE FRound(x.neg # y.neg, BMul(x.m, y.m), x.e + y.e, FALSE)

FDivRound(neg, qr, e) == FRound(neg, qr[1], e, qr[2] # <<>>)

\* x / y; Python raises ZeroDivisionError for y = 0
FDiv(x, y) ==
    IF y.m = <<>> THEN "ZeroDivisionError"
    ELSE IF x.m = <<>> THEN FZero
    ELSE FDivRound(x.neg # y.neg,
                   BDivMod(BShl(x.m, Precision + 3), y.m),
                   x.e - (Precision + 3) - y.e)

FSqrtRound(a, r, e) == FRound(FALSE, r, e, BMul(r, r) # a)

FSqrtShifted(a, e) == FSqrtRound(a, BSqrt(a), e)

\* math.sqrt(x) for x >= 0: the root of the significand times an even power
\* of two
FSqrt(x) ==
    IF x.m = <<>> THEN FZero
    ELSE FSqrtShifted(BShl(x.m, Precision + 5 + (x.e % 2)),
                      (x.e - (Precision + 5 + (x.e % 2))) \div 2)

\* the float a decimal literal n/d denotes: the one nearest to the quotient
FLit(n, d) == FDiv(FInt(n), FInt(d))

\* max(x, y) and min(x, y) of Python, which keep the first argument on a tie
FMaxOf(x, y) == IF FLt(x, y) THEN y ELSE x

FMinOf(x, y) == IF FLt(y, x) THEN y ELSE x

\* _calculate_confidence_interval with the default confidence 0.95; the
\* operators below it are its local variables
Z == FLit(196, 100)

WilsonDenominator(z2, total) == FAdd(FInt(1), FDiv(z2, FInt(total)))

WilsonCenter(p, z2, total, denominator) ==
    FDiv(FAdd(p, FDiv(z2, FInt(2 * total))), denominator)

WilsonMargin(p, z2, total, denominator) ==
    FDiv(FMul(Z, FSqrt(FDiv(FAdd(FMul(p, FSub(FInt(1), p)),
                                 FDiv(z2, FInt(4 * total))),
                            FInt(total)))),
         denominator)

WilsonBounds(center, margin) ==
    <<FMaxOf(FZero, FSub(center, margin)),
      FMinOf(FInt(1), FAdd(center, margin))>>

WilsonAround(p, z2, total, denominator) ==
    WilsonBounds(WilsonCenter(p, z2, total, denominator),
                 WilsonMargin(p, z2, total, denominator))

WilsonInterval(p, z2, total) ==
    WilsonAround(p, z2, total, WilsonDenominator(z2, total))

CalculateConfidenceInterval(successes, total) ==
    IF total = 0 THEN <<FZero, FZero>>
    ELSE WilsonInterval(FDiv(FInt(successes), FInt(total)), FMul(Z, Z), total)

\* ------------------------------------------------ difficulty calculator
\* DifficultyCalculator().min_sample_size and the default of days_back
MinSampleSize == 10

DefaultDaysBack == 30

\* TLC strings have no substrings: the words _extract_knowledge_type looks
\* for that a question id contains
QuestionIdWords(question_id) ==
    CASE question_id = "term_dose_3" -> {"term", "dose"}
      [] question_id = "mechanism_4" -> {"mechanism"}
      [] question_id = "term_5" -> {"term"}
      [] OTHER -> {}

ExtractKnowledgeType(question_id) ==
    LET has(word) == word \in QuestionIdWords(question_id)
    IN  IF has("dosage") \/ has("dose") THEN "dosage"
        ELSE IF has("side_effect") \/ has("adverse") THEN "side_effect"
        ELSE IF has("pharmacodynamics") \/ has("mechanism")
             THEN "pharmacodynamics"
        ELSE IF has("pharmacokinetics") \/ has("absorption")
             THEN "pharmacokinetics"
        ELSE IF has("term") THEN "terminology"
        ELSE "general"

\* EXPECTED_RESPONSE_TIMES.get(knowledge_type, 30), seconds
ExpectedResponseTimes ==
    [terminology |-> 15, dosage |-> 30, side_effect |-> 25,
     pharmacodynamics |-> 45, pharmacokinetics |-> 40]

ExpectedTime(knowledge_type) ==
    IF knowledge_type \in DOMAIN ExpectedResponseTimes
    THEN ExpectedResponseTimes[knowledge_type]
    ELSE 30

\* _calculate_composite_difficulty; the operators below are its local
\* variables
SuccessDifficultyNotInverted(success_rate) == success_rate

SuccessDifficulty(success_rate) == FSub(FInt(1), success_rate)

ReachPenalty(reach_rate) ==
    FMaxOf(FZero, FMul(FSub(FLit(5, 10), reach_rate), FInt(2)))

TimeFactor(avg_response_time, expected_time) ==
    FMinOf(FInt(1), FDiv(avg_response_time, FInt(expected_time)))

CompositeScore(success_difficulty, reach_penalty, time_factor) ==
    FAdd(FAdd(FMul(success_difficulty, FLit(6, 10)),
              FMul(reach_penalty, FLit(25, 100))),
         FMul(FSub(time_factor, FLit(5, 10)), FLit(15, 100)))

CalculateCompositeDifficulty(success_rate, reach_rate, avg_response_time, question_id) ==
    FMaxOf(FZero,
           FMinOf(FInt(1),
                  CompositeScore(
                      SuccessDifficulty(success_rate),
                      ReachPenalty(reach_rate),
                      TimeFactor(avg_response_time,
                                 ExpectedTime(ExtractKnowledgeType(question_id))))))

\* DIFFICULTY_THRESHOLDS applied in place of the score thresholds: a
\* classification the calculator does not make
ScoreToDifficultyByRateThresholds(score) ==
    IF FLe(FLit(7, 10), score) THEN "beginner"
    ELSE IF FLe(FLit(4, 10), score) THEN "intermediate"
    ELSE "advanced"

\* _score_to_difficulty
ScoreToDifficulty(score) ==
    IF FLe(score, FLit(3, 10)) THEN "beginner"
    ELSE IF FLe(score, FLit(7, 10)) THEN "intermediate"
    ELSE "advanced"

\* The rows of student_responses the two aggregate queries see: those of the
\* last days_back days, of one question or of all.  The clock counts days
\* here.
InWindow(responses, days_back, at) ==
    SelectSeq(responses, LAMBDA r : r.created_at >= at - days_back)

OfQuestion(rows, question_id) ==
    SelectSeq(rows, LAMBDA r : r.question_id = question_id)

RECURSIVE SumResponseTime(_, _)
SumResponseTime(rows, i) ==
    IF i > Len(rows) THEN 0
    ELSE rows[i].response_time_ms + SumResponseTime(rows, i + 1)

UsersOf(rows) == {rows[i].user_id : i \in 1..Len(rows)}

\* _get_active_students_count
GetActiveStudentsCount(responses, days_back, at) ==
    Cardinality(UsersOf(InWindow(responses, days_back, at)))

\* The columns of the aggregate row and what the body derives from them
TotalCorrect(rows) == Len(SelectSeq(rows, LAMBDA r : r.is_correct))

GlobalSuccessRate(rows) ==
    FDiv(FInt(TotalCorrect(rows)), FInt(Len(rows)))

\* x or d of Python, for a float x
FOr(x, d) == IF x.m = <<>> THEN d ELSE x

AverageResponseTime(rows) ==
    FDiv(FOr(FDiv(FInt(SumResponseTime(rows, 1)), FInt(Len(rows))),
             FInt(30000)),
         FInt(1000))

ReachRate(rows, total_active_students) ==
    FDiv(FInt(Cardinality(UsersOf(rows))),
         FInt(IntMax(total_active_students, 1)))

DifficultyMetrics(question_id, global_success_rate, total_attempts, average_response_time, reach_rate, difficulty_score, confidence_interval, last_computed) ==
    [question_id           |-> question_id,
     global_success_rate   |-> global_success_rate,
     total_attempts        |-> total_attempts,
     average_response_time |-> average_response_time,
     reach_rate            |-> reach_rate,
     difficulty_score      |-> difficulty_score,
     computed_difficulty   |-> ScoreToDifficulty(difficulty_score),
     confidence_interval   |-> confidence_interval,
     last_computed         |-> last_computed]

ScoredMetrics(question_id, success_rate, total_attempts, avg_response_time, reach_rate, confidence_interval, at) ==
    DifficultyMetrics(question_id, success_rate, total_attempts,
                      avg_response_time, reach_rate,
                      CalculateCompositeDifficulty(success_rate, reach_rate,
                                                   avg_response_time,
                                                   question_id),
                      confidence_interval, at)

MetricsOfRows(rows, question_id, total_active_students, at) ==
    IF Len(rows) = 0 \/ Len(rows) < MinSampleSize THEN Null
    ELSE Some(ScoredMetrics(question_id, GlobalSuccessRate(rows), Len(rows),
                            AverageResponseTime(rows),
                            ReachRate(rows, total_active_students),
                            CalculateConfidenceInterval(TotalCorrect(rows),
                                                        Len(rows)),
                            at))

\* calculate_question_difficulty: None without a result row or below the
\* minimum sample size, and None for any exception of the body (a query
\* that fails)
CalculateQuestionDifficulty(responses, question_id, days_back, at, fails) ==
    IF fails THEN Null
    ELSE MetricsOfRows(OfQuestion(InWindow(responses, days_back, at),
                                  question_id),
                       question_id,
                       GetActiveStudentsCount(responses, days_back, at), at)

\* _save_difficulty_metrics: INSERT ... ON CONFLICT (question_id) DO UPDATE,
\* then commit; an exception of the statement is logged and rolled back, and
\* the table keeps what the earlier commits left.  The raw INSERT names no
\* is_active, a column with a Python-side default only, so a new row has it
\* NULL; an update leaves id, is_active and created_at alone.
MetricsColumns(metrics) ==
    [question_id           |-> metrics.question_id,
     global_success_rate   |-> metrics.global_success_rate,
     total_attempts        |-> metrics.total_attempts,
     average_response_time |-> metrics.average_response_time,
     reach_rate            |-> metrics.reach_rate,
     difficulty_score      |-> metrics.difficulty_score,
     computed_difficulty   |-> metrics.computed_difficulty,
     confidence_lower      |-> metrics.confidence_interval[1],
     confidence_upper      |-> metrics.confidence_interval[2],
     last_computed         |-> metrics.last_computed]

SaveDifficultyMetricsInsertOnly(table, metrics, at, fails) ==
    IF fails THEN table
    ELSE Append(table, MetricsColumns(metrics)
                       @@ [id |-> Len(table) + 1, is_active |-> Null,
                           created_at |-> at, updated_at |-> at])

SaveDifficultyMetrics(table, metrics, at, fails) ==
    LET hit == {i \in 1..Len(table) :
                    table[i].question_id = metrics.question_id}
        new == [id |-> Len(table) + 1, is_active |-> Null,
                created_at |-> at, updated_at |-> at]
    IN  IF fails THEN table
        ELSE IF hit = {}
             THEN Append(table, MetricsColumns(metrics) @@ new)
             ELSE [i \in 1..Len(table) |->
                     IF i \in hit
                     THEN MetricsColumns(metrics)
                          @@ [id         |-> table[i].id,
                              is_active  |-> table[i].is_active,
                              created_at |-> table[i].created_at,
                              updated_at |-> at]
                     ELSE table[i]]

\* The discovery query of batch_calculate_difficulties: the questions with
\* at least min_sample_size rows in the window
ActiveQuestions(responses, days_back, at) ==
    {q \in {responses[i].question_id : i \in 1..Len(responses)} :
        Len(OfQuestion(InWindow(responses, days_back, at), q))
            >= MinSampleSize}

\* The loop of batch_calculate_difficulties from item i on.  faults[i] is
\* what goes wrong with item i: nothing, its calculation ("compute") or its
\* upsert ("upsert").  The item enters results before it is saved.
RECURSIVE BatchFrom(_, _, _, _, _, _, _, _)
BatchItem(responses, table, question_ids, days_back, at, faults, i, results, metrics) ==
    IF metrics = Null
    THEN BatchFrom(responses, table, question_ids, days_back, at, faults,
                   i + 1, results)
    ELSE BatchFrom(responses,
                   SaveDifficultyMetrics(table, metrics[1], at,
                                         faults[i] = "upsert"),
                   question_ids, days_back, at, faults, i + 1,
                   (question_ids[i] :> metrics[1]) @@ results)

BatchFrom(responses, table, question_ids, days_back, at, faults, i, results) ==
    IF i > Len(question_ids) THEN [results |-> results, table |-> table]
    ELSE BatchItem(responses, table, question_ids, days_back, at, faults, i,
                   results,
                   CalculateQuestionDifficulty(responses, question_ids[i],
                                               days_back, at,
                                               faults[i] = "compute"))

\* ---------------------------------------------------- difficulty endpoints
\* Calculations the model runs one after another, and answer events
\* submitted before them
MaxJobs == 1

MaxSubmits == 1

DaysBack == {7, DefaultDaysBack}

JobSeq == IF job = NoJob THEN 0 ELSE job.seq

HTTPException(status_code, detail) ==
    [status_code |-> status_code, detail |-> detail]

\* Answer events recorded earlier: n rows of one question on one day, the
\* first `correct` of them correct, taken in turn by `users`
HistoryRows(question_id, users, n, correct, created_at) ==
    [i \in 1..n |->
        [user_id          |-> users[((i - 1) % Len(users)) + 1],
         question_id      |-> question_id,
         is_correct       |-> i <= correct,
         response_time_ms |-> IF i <= correct THEN 20000 ELSE 40000,
         session_id       |-> Null,
         created_at       |-> created_at]]

ResponseLogs ==
    { HistoryRows("q1", <<"u1", "u2">>, 6, 4, 0)
        \o HistoryRows("q1", <<"u1">>, 4, 1, -10)
        \o HistoryRows("q1", <<"u2">>, 3, 3, -(DefaultDaysBack + 1)),
      HistoryRows("q1", <<"u1", "u2">>, 9, 5, 0)
        \o HistoryRows("q2", <<"u1">>, 12, 12, 0),
      HistoryRows("q1", <<"u1">>, 10, 0, 0)
        \o HistoryRows("q2", <<"u2", "u3">>, 11, 7, -10) }

InitDifficulty ==
    /\ qarms = <<>>
    /\ tarms = <<>>
    /\ now = 0
    /\ call = NoCall
    /\ prior = NoCall
    /\ ckpt = NoCheckpoint
    /\ body = NoBody
    /\ txns = <<>>
    /\ devices = <<>>
    /\ student_responses \in ResponseLogs
    /\ question_metrics = <<>>
    /\ job = NoJob
    /\ probe = NoProbe

off_difficulty == <<qarms, tarms, now, call, prior, ckpt, body, txns, devices,
                    probe>>

\* POST /api/difficulty/responses/submit
RequiredFields == {"user_id", "question_id", "is_correct", "response_time_ms"}

ResponseData ==
    { [user_id |-> "u2", question_id |-> "q1", is_correct |-> TRUE,
       response_time_ms |-> 20000, session_id |-> Some("live")],
      [user_id |-> "u1", question_id |-> "q2", is_correct |-> FALSE,
       response_time_ms |-> 40000, session_id |-> Some("live")],
      [user_id |-> "u1", question_id |-> "q1", is_correct |-> TRUE] }

Submitted ==
    Len(SelectSeq(student_responses, LAMBDA r : r.session_id # Null))

SubmitStudentResponse(response_data) ==
    /\ IF RequiredFields \subseteq DOMAIN response_data
       THEN student_responses' =
                Append(student_responses,
                       [user_id          |-> response_data.user_id,
                        question_id      |-> response_data.question_id,
                        is_correct       |-> response_data.is_correct,
                        response_time_ms |-> response_data.response_time_ms,
                        session_id       |->
                            IF "session_id" \in DOMAIN response_data
                            THEN response_data.session_id ELSE Null,
                        created_at       |-> now])
       ELSE UNCHANGED student_responses
    /\ UNCHANGED <<question_metrics, job, off_difficulty>>

\* GET /api/difficulty/calculate/{question_id}.  The HTTPException(404) for
\* missing metrics is raised inside the try block whose only handler is
\* `except Exception`, and HTTPException is an Exception: the handler turns
\* it into HTTPException(500, str(e)).
ExceptException(e) == HTTPException(500, e)

CalculateSingleQuestionDifficulty(metrics) ==
    IF metrics = Null
    THEN ExceptException(HTTPException(404, "Insufficient data for question"))
    ELSE [status_code |-> 200, success |-> TRUE, data |-> metrics[1]]

CalculateSingleJob(question_id, days_back, fails, metrics) ==
    [op |-> "calculate_single", seq |-> JobSeq + 1,
     question_id |-> question_id, days_back |-> days_back,
     fails |-> fails, metrics |-> metrics,
     response |-> CalculateSingleQuestionDifficulty(metrics)]

CalculateSingle(question_id, days_back, fails) ==
    /\ job' = CalculateSingleJob(question_id, days_back, fails,
                                 CalculateQuestionDifficulty(
                                     student_responses, question_id,
                                     days_back, now, fails))
    /\ UNCHANGED <<student_responses, question_metrics, off_difficulty>>

\* batch_calculate_difficulties, as the background task of POST
\* /api/difficulty/calculate/batch runs it.  Without ids (None or an empty
\* list) the items are the discovered questions, in the order the query
\* happens to return them.
Orderings(S) ==
    {s \in [1..Cardinality(S) -> S] : {s[i] : i \in 1..Len(s)} = S}

\* Most ids one batch request names
MaxItems == 2

\* question_ids: None, or a list of ids that may be empty
BatchRequests == {Null} \cup {Some(ids) : ids \in SeqUpTo(QuestionIds, MaxItems)}

\* `if not question_ids`: None and the empty list alike
NotQuestionIds(question_ids) == question_ids = Null \/ question_ids[1] = <<>>

BatchFaults == {"none", "compute", "upsert"}

BatchDone(question_ids, days_back, items, faults, done) ==
    /\ question_metrics' = done.table
    /\ job' = [op |-> "batch", seq |-> JobSeq + 1,
               question_ids |-> question_ids, days_back |-> days_back,
               items |-> items, faults |-> faults,
               results |-> done.results, before |-> question_metrics]

BatchCalculateDifficulties(question_ids, days_back, items, faults) ==
    /\ items \in IF NotQuestionIds(question_ids)
                 THEN Orderings(ActiveQuestions(student_responses,
                                                days_back, now))
                 ELSE {question_ids[1]}
    /\ BatchDone(question_ids, days_back, items, faults,
                 BatchFrom(student_responses, question_metrics, items,
                           days_back, now, faults, 1, <<>>))
    /\ UNCHANGED <<student_responses, off_difficulty>>

NextDifficulty ==
    \/ /\ job = NoJob
       /\ Submitted < MaxSubmits
       /\ \E response_data \in ResponseData :
              SubmitStudentResponse(response_data)
    \/ /\ JobSeq < MaxJobs
       /\ \E question_id \in QuestionIds, days_back \in DaysBack,
             fails \in BOOLEAN :
              CalculateSingle(question_id, days_back, fails)
    \/ /\ JobSeq < MaxJobs
       /\ \E question_ids \in BatchRequests, days_back \in DaysBack :
          \E items \in SeqUpTo(QuestionIds, MaxItems) :
          \E faults \in [1..Len(items) -> BatchFaults] :
              BatchCalculateDifficulties(question_ids, days_back, items, faults)

SpecDifficulty == InitDifficulty /\ [][NextDifficulty]_vars

\* ------------------------------------------------ metrics over the days
\* The daily batch (question_ids=None, days_back=30), the weekly cleanup
\* and reads of the cached metrics, over a response log that stays as it is
\* while the days pass.  The clock counts days and runs to MaxDay.
MaxDay == 10

DaysToKeep == 90

MetricsLogs ==
    { HistoryRows("q1", <<"u1", "u2">>, 10, 4, 0)
        \o HistoryRows("q1", <<"u1">>, 5, 5, -25),
      HistoryRows("q1", <<"u1">>, 12, 6, 0)
        \o HistoryRows("q2", <<"u1", "u2">>, 10, 10, -5) }

InitMetrics ==
    /\ qarms = <<>>
    /\ tarms = <<>>
    /\ now = 0
    /\ call = NoCall
    /\ prior = NoCall
    /\ ckpt = NoCheckpoint
    /\ body = NoBody
    /\ txns = <<>>
    /\ devices = <<>>
    /\ student_responses \in MetricsLogs
    /\ question_metrics = <<>>
    /\ job = NoJob
    /\ probe = NoProbe

off_metrics == <<qarms, tarms, call, prior, ckpt, body, txns, devices,
                 student_responses, probe>>

DayPasses ==
    /\ now < MaxDay
    /\ now' = MaxDay
    /\ UNCHANGED <<question_metrics, job, off_metrics>>

\* batch_calculate_difficulties(question_ids=None, days_back), as
\* calculate_all_question_difficulties and POST /calculate/batch run it
BatchRun(days_back, items, faults, done) ==
    /\ question_metrics' = done.table
    /\ job' = [op |-> "batch", at |-> now, days_back |-> days_back,
               items |-> items, faults |-> faults,
               results |-> done.results, before |-> question_metrics]

DailyBatch(days_back, items, faults) ==
    /\ items \in Orderings(ActiveQuestions(student_responses, days_back, now))
    /\ BatchRun(days_back, items, faults,
                BatchFrom(student_responses, question_metrics, items,
                          days_back, now, faults, 1, <<>>))
    /\ UNCHANGED <<now, off_metrics>>

\* cleanup_old_metrics: UPDATE question_metrics SET is_active = FALSE,
\* updated_at = NOW() WHERE last_computed < :cutoff_date AND is_active = TRUE
Stale(row, cutoff_date) ==
    row.last_computed < cutoff_date /\ row.is_active = Some(TRUE)

CleanupOldMetrics(days_to_keep) ==
    /\ question_metrics' =
          [i \in 1..Len(question_metrics) |->
              IF Stale(question_metrics[i], now - days_to_keep)
              THEN [question_metrics[i] EXCEPT
                      !.is_active = Some(FALSE), !.updated_at = now]
              ELSE question_metrics[i]]
    /\ job' = [op |-> "cleanup", at |-> now,
               deactivated_count |->
                   Len(SelectSeq(question_metrics,
                                 LAMBDA row : Stale(row, now - days_to_keep)))]
    /\ UNCHANGED <<now, off_metrics>>

\* GET /api/difficulty/metrics/{question_id}: the first row of the question
\* with is_active = TRUE, or 404 (re-raised as it is by `except
\* HTTPException: raise`)
ActiveMetrics(question_id) ==
    SelectSeq(question_metrics,
              LAMBDA row : row.question_id = question_id
                             /\ row.is_active = Some(TRUE))

GetQuestionMetrics(question_id) ==
    /\ job' = [op |-> "get_metrics", at |-> now, question_id |-> question_id,
               response |->
                   IF ActiveMetrics(question_id) = <<>>
                   THEN HTTPException(404, "No metrics found for question")
                   ELSE [status_code |-> 200, success |-> TRUE,
                         data |-> ActiveMetrics(question_id)[1]]]
    /\ UNCHANGED <<question_metrics, now, off_metrics>>

\* No fault, or the upsert of one item fails
UpsertFaults(n) ==
    {[i \in 1..n |-> "none"]}
        \cup {[i \in 1..n |-> IF i = k THEN "upsert" ELSE "none"] : k \in 1..n}

NextMetrics ==
    \/ DayPasses
    \/ \E items \in SeqUpTo(QuestionIds, Cardinality(QuestionIds)) :
       \E faults \in UpsertFaults(Len(items)) :
           DailyBatch(DefaultDaysBack, items, faults)
    \/ CleanupOldMetrics(DaysToKeep)
    \/ \E question_id \in QuestionIds : GetQuestionMetrics(question_id)

SpecMetrics == InitMetrics /\ [][NextMetrics]_vars

\* ------------------------------------------------ one item, query by query
\* calculate_question_difficulty as the two statements it sends, with the
\* ingestion of answers and the clock running beside it.  Each statement
\* takes its own cutoff from its own datetime.now(); the unit of the clock
\* does not matter, only that the second reading may be later than the
\* first.
MaxTick == 2

\* Answer events at the edge of the shortest window, seen from clock 0
ReachLogs ==
    { HistoryRows("q1", <<"u1">>, 10, 5, 0)
        \o HistoryRows("q1", <<"u2">>, 1, 1, -7),
      HistoryRows("q1", <<"u1", "u2">>, 10, 6, 0)
        \o HistoryRows("q2", <<"u3">>, 2, 1, -1) }

InitReach ==
    /\ qarms = <<>>
    /\ tarms = <<>>
    /\ now = 0
    /\ call = NoCall
    /\ prior = NoCall
    /\ ckpt = NoCheckpoint
    /\ body = NoBody
    /\ txns = <<>>
    /\ devices = <<>>
    /\ student_responses \in ReachLogs
    /\ question_metrics = <<>>
    /\ job = NoJob
    /\ probe = NoProbe

off_reach == <<qarms, tarms, call, prior, ckpt, body, txns, devices,
               question_metrics, probe>>

Tick ==
    /\ now < MaxTick
    /\ now' = now + 1
    /\ UNCHANGED <<student_responses, job, off_reach>>

\* The aggregate query of the item, with cutoff_date = datetime.now() -
\* timedelta(days=days_back); without a row, or below the minimum sample
\* size, the calculation returns None here.
QueryPerformance(question_id, days_back) ==
    /\ job = NoJob
    /\ job' = [op |-> "calculate_item", question_id |-> question_id,
               days_back |-> days_back, at |-> now,
               snapshot |-> student_responses,
               rows |-> OfQuestion(InWindow(student_responses, days_back,
                                            now),
                                   question_id),
               step |-> IF Len(OfQuestion(InWindow(student_responses,
                                                   days_back, now),
                                          question_id)) < MinSampleSize
                        THEN "done" ELSE "aggregated",
               metrics |-> Null]
    /\ UNCHANGED <<student_responses, now, off_reach>>

\* _get_active_students_count, the second statement of the same session,
\* with a cutoff of its own, and the rest of the body.  The statement sees
\* the rows committed by now or, in a repeatable-read transaction, the
\* rows the first statement saw.
VisibleRows(repeatable_read) ==
    IF repeatable_read THEN job.snapshot ELSE student_responses

QueryActiveStudents(repeatable_read) ==
    /\ job # NoJob
    /\ job.op = "calculate_item"
    /\ job.step = "aggregated"
    /\ job' = [job EXCEPT
                 !.step = "done",
                 !.metrics = MetricsOfRows(job.rows, job.question_id,
                                           GetActiveStudentsCount(
                                               VisibleRows(repeatable_read),
                                               job.days_back, now),
                                           now)]
    /\ UNCHANGED <<student_responses, now, off_reach>>

NextReach ==
    \/ Tick
    \/ /\ Submitted < MaxSubmits
       /\ \E response_data \in ResponseData :
              SubmitStudentResponse(response_data)
    \/ \E question_id \in QuestionIds, days_back \in DaysBack :
          QueryPerformance(question_id, days_back)
    \/ \E repeatable_read \in BOOLEAN : QueryActiveStudents(repeatable_read)

SpecReach == InitReach /\ [][NextReach]_vars

\* ------------------------------------------------------ background tasks
\* The two Celery tasks that run the batch.  A run is the task body from
\* its first line to its return or its self.retry.  What may go wrong in a
\* run: nothing; "batch", an exception inside the try block of
\* batch_calculate_difficulties (the session, the discovery query), which
\* that block logs and swallows; "close", an exception of db.close() in
\* its finally block, after the items were processed; "loop", an
\* exception of the task body before the batch is called.
TaskFaults == {"none", "batch", "close", "loop"}

\* @celery_app.task(bind=True, max_retries=...)
MaxRetriesOf(task) ==
    IF task = "calculate_all_question_difficulties" THEN 3 ELSE 2

\* countdown=60 * (2 ** self.request.retries), 30 for the id-batch task
CountdownOf(task, retries) ==
    (IF task = "calculate_all_question_difficulties" THEN 60 ELSE 30)
        * Pow2(retries)

\* The ids the tasks are sent: question_ids=None by the all-items task
TaskRequests ==
    {[task |-> "calculate_all_question_difficulties", question_ids |-> Null],
     [task |-> "calculate_question_difficulties_batch",
      question_ids |-> Some(<<"q1">>)],
     [task |-> "calculate_question_difficulties_batch",
      question_ids |-> Some(<<"q2", "q1">>)]}

InitTask ==
    /\ qarms = <<>>
    /\ tarms = <<>>
    /\ now = 0
    /\ call = NoCall
    /\ prior = NoCall
    /\ ckpt = NoCheckpoint
    /\ body = NoBody
    /\ txns = <<>>
    /\ devices = <<>>
    /\ student_responses \in MetricsLogs
    /\ question_metrics = <<>>
    /\ job = NoJob
    /\ probe = NoProbe

off_task == <<qarms, tarms, now, call, prior, ckpt, body, txns, devices,
              student_responses, probe>>

\* task.delay(...)
Delay(request) ==
    /\ job = NoJob
    /\ job' = [op |-> "task", task |-> request.task,
               question_ids |-> request.question_ids,
               days_back |-> DefaultDaysBack, retries |-> 0,
               state |-> "queued", fault |-> "none", countdowns |-> <<>>,
               result |-> Null]
    /\ UNCHANGED <<question_metrics, off_task>>

\* The dictionary a run returns from its try block
TaskSuccess(task, question_ids, results) ==
    IF task = "calculate_all_question_difficulties"
    THEN [success |-> TRUE,
          processed_questions |-> Cardinality(DOMAIN results)]
    ELSE [success |-> TRUE,
          processed_count |-> Cardinality(DOMAIN results),
          failed_count |-> Len(SelectSeq(question_ids[1],
                                         LAMBDA q : q \notin DOMAIN results)),
          failed_ids |-> SelectSeq(question_ids[1],
                                   LAMBDA q : q \notin DOMAIN results)]

\* The except block of the task: self.retry while retries are left, the
\* failure dictionary after that
TaskExcept(fault) ==
    IF job.retries < MaxRetriesOf(job.task)
    THEN [job EXCEPT
            !.state = "retry", !.fault = fault,
            !.retries = @ + 1,
            !.countdowns = Append(@, CountdownOf(job.task, job.retries))]
    ELSE [job EXCEPT
            !.state = "finished", !.fault = fault,
            !.result = Some([success |-> FALSE, error |-> fault])]

TaskReturn(fault, results) ==
    [job EXCEPT
       !.state = "finished", !.fault = fault,
       !.result = Some(TaskSuccess(job.task, job.question_ids, results))]

\* What the batch leaves behind in a run: nothing if it was not reached or
\* failed before its first item
TaskBatch(fault, items, faults) ==
    IF fault \in {"batch", "loop"}
    THEN [results |-> <<>>, table |-> question_metrics]
    ELSE BatchFrom(student_responses, question_metrics, items,
                   job.days_back, now, faults, 1, <<>>)

RunDone(fault, done) ==
    /\ question_metrics' = done.table
    /\ job' = IF fault \in {"close", "loop"} THEN TaskExcept(fault)
              ELSE TaskReturn(fault, done.results)

Run(fault, items, faults) ==
    /\ job # NoJob
    /\ job.op = "task"
    /\ job.state \in {"queued", "retry"}
    /\ items \in IF fault \in {"batch", "loop"} THEN {<<>>}
                 ELSE IF NotQuestionIds(job.question_ids)
                 THEN Orderings(ActiveQuestions(student_responses,
                                                job.days_back, now))
                 ELSE {job.question_ids[1]}
    /\ RunDone(fault, TaskBatch(fault, items, faults))
    /\ UNCHANGED off_task

NextTask ==
    \/ \E request \in TaskRequests : Delay(request)
    \/ \E fault \in TaskFaults :
       \E items \in SeqUpTo(QuestionIds, Cardinality(QuestionIds)) :
       \E faults \in UpsertFaults(Len(items)) :
           Run(fault, items, faults)

SpecTask == InitTask /\ [][NextTask]_vars

\* ------------------------------------------- calls of the pure functions
\* _calculate_composite_difficulty and _calculate_confidence_interval read
\* no state: a call is its arguments (probe.status = "input") and then its
\* arguments with what it returned (probe.status = "done").

\* Largest number of attempts behind a success rate given to the composite
\* score
MaxSamples == 4

\* Largest total given to the Wilson interval
MaxTotal == 12

\* success_rate = total_correct / total_attempts
Rates(n) == {r \in (0..n) \X (1..n) : r[1] <= r[2]}

RateOf(r) == FDiv(FInt(r[1]), FInt(r[2]))

\* reach_rate = unique_users / max(total_active_students, 1)
ReachRates == {<<0, 1>>, <<1, 4>>, <<1, 1>>}

\* avg_response_time_ms, turned into seconds by the caller
ResponseTimesMs == {5000, 20000, 60000}

Seconds(ms) == FDiv(FInt(ms), FInt(1000))

CompositeQuestionIds == {"q1", "term_5"}

\* Two calls that differ in success_rate only
CompositeInputs ==
    [status : {"input"}, op : {"composite"},
     success : Rates(MaxSamples), other_success : Rates(MaxSamples),
     reach : ReachRates, avg_response_time_ms : ResponseTimesMs,
     question_id : CompositeQuestionIds]

CompositeDone(in, success_rate, other_success_rate, reach_rate, avg_response_time) ==
    [status |-> "done", op |-> "composite", in |-> in,
     success_rate |-> success_rate,
     other_success_rate |-> other_success_rate,
     reach_rate |-> reach_rate,
     avg_response_time |-> avg_response_time,
     score |-> CalculateCompositeDifficulty(success_rate, reach_rate,
                                            avg_response_time,
                                            in.question_id),
     other_score |-> CalculateCompositeDifficulty(other_success_rate,
                                                  reach_rate,
                                                  avg_response_time,
                                                  in.question_id)]

off_probe == <<qarms, tarms, now, call, prior, ckpt, body, txns, devices,
               student_responses, question_metrics, job>>

InitOffProbe ==
    /\ qarms = <<>>
    /\ tarms = <<>>
    /\ now = 1
    /\ call = NoCall
    /\ prior = NoCall
    /\ ckpt = NoCheckpoint
    /\ body = NoBody
    /\ txns = <<>>
    /\ devices = <<>>
    /\ student_responses = <<>>
    /\ question_metrics = <<>>
    /\ job = NoJob

InitComposite ==
    /\ InitOffProbe
    /\ probe \in CompositeInputs

CallCompositeDifficulty ==
    /\ probe.status = "input"
    /\ probe.op = "composite"
    /\ probe' = CompositeDone(probe, RateOf(probe.success),
                              RateOf(probe.other_success),
                              RateOf(probe.reach),
                              Seconds(probe.avg_response_time_ms))
    /\ UNCHANGED off_probe

NextComposite == CallCompositeDifficulty

SpecComposite == InitComposite /\ [][NextComposite]_vars

\* Factors by which successes and total grow together, the proportion
\* staying what it is
Growth == {2, 100}

WilsonInputs ==
    {in \in [status : {"input"}, op : {"wilson"},
              successes : 0..MaxTotal, total : 1..MaxTotal,
              growth : Growth] :
        in.successes <= in.total}

WilsonDone(in) ==
    [status |-> "done", op |-> "wilson", in |-> in,
     p |-> FDiv(FInt(in.successes), FInt(in.total)),
     interval |-> CalculateConfidenceInterval(in.successes, in.total),
     grown |-> CalculateConfidenceInterval(in.successes * in.growth,
                                           in.total * in.growth)]

InitWilson ==
    /\ InitOffProbe
    /\ probe \in WilsonInputs

CallConfidenceInterval ==
    /\ probe.status = "input"
    /\ probe.op = "wilson"
    /\ probe' = WilsonDone(probe)
    /\ UNCHANGED off_probe

NextWilson == CallConfidenceInterval

SpecWilson == InitWilson /\ [][NextWilson]_vars

\* ------------------------------------------------- concurrent sync calls
\* Two calls of POST /sync/mab of user u1 run at once, each with its own
\* AsyncSession and one snapshot of the same stored question arm.  A call
\* yields at its awaits: the SELECT of the arm and the commit, whose flush
\* sends the UPDATE.  No isolation level or row lock is asked for
\* (create_async_engine is given none, the SELECT has no with_for_update),
\* so the SELECT of one call can precede the commit of the other.
Calls == {1, 2}

\* The arm as stored before the two calls
ConcurrentStored ==
    [user_id |-> "u1", question_id |-> "q1", difficulty |-> "beginner",
     attempts |-> 0, successes |-> 0, failures |-> 0,
     total_response_time_ms |-> 0, alpha |-> 7, beta |-> 3,
     user_confidence |-> Ratio(1, 2), last_attempted |-> Null,
     created_at |-> Some(FromTimestamp(1)),
     updated_at |-> Some(FromTimestamp(1))]

ConcurrentKey == <<"u1", "q1">>

\* The snapshots the two devices may submit: the stored arm after no, one
\* or two local answers, stamped by the device clock
ConcurrentSnapshots ==
    {[SnapshotOf(ConcurrentStored) EXCEPT
        !.attempts = c[1], !.successes = c[2], !.failures = c[1] - c[2],
        !.total_response_time_ms = 1000 * c[1],
        !.alpha = 7 + c[2], !.beta = 3 + (c[1] - c[2]),
        !.user_confidence = Ratio(7 + c[2], 10 + c[1]),
        !.updated_at = at] :
        c \in {<<0, 0>>, <<1, 1>>, <<1, 0>>, <<2, 1>>}, at \in {0, 2, 3}}

NoTxn == [status |-> "none"]

InitConcurrent ==
    /\ qarms = (ConcurrentKey :> ConcurrentStored)
    /\ tarms = <<>>
    /\ now = 1
    /\ call = NoCall
    /\ prior = NoCall
    /\ ckpt = NoCheckpoint
    /\ body = NoBody
    /\ txns = [c \in Calls |-> NoTxn]
    /\ devices = <<>>
    /\ student_responses = <<>>
    /\ question_metrics = <<>>
    /\ job = NoJob
    /\ probe = NoProbe

off_txns == <<tarms, now, call, prior, ckpt, body, devices,
              student_responses, question_metrics, job, probe>>

\* The call up to the end of its loop: the SELECT loads the row as
\* committed at that moment, the conflict test compares against the loaded
\* row and the winning branch assigns the snapshot to the loaded object.
SelectedTxn(arm, existing_arm, wins) ==
    [status |-> "selected", arm |-> arm, loaded |-> existing_arm,
     assigned |-> IF wins THEN OverwriteQuestionArm(existing_arm, arm)
                  ELSE existing_arm,
     conflicts_resolved |-> IF wins THEN 1 ELSE 0]

SyncSelect(c, arm) ==
    /\ txns[c] = NoTxn
    /\ txns' = [txns EXCEPT ![c] =
                   SelectedTxn(arm, qarms[ConcurrentKey],
                               ClientWins(qarms[ConcurrentKey].updated_at,
                                          FromTimestamp(arm.updated_at)))]
    /\ UNCHANGED <<qarms, off_txns>>

\* The UPDATE the flush sends: SET names the attributes whose assigned
\* value differs from the loaded one, WHERE names the primary key; the row
\* it changes is the row as committed by then.
NetChange(loaded, assigned) ==
    {col \in DOMAIN loaded : assigned[col] # loaded[col]}

FlushUpdate(row, loaded, assigned) ==
    [col \in DOMAIN row |->
        IF col \in NetChange(loaded, assigned) THEN assigned[col]
        ELSE row[col]]

\* await session.commit(), and the rest of the handler, which writes
\* nothing
SyncCommit(c) ==
    /\ txns[c].status = "selected"
    /\ qarms' = [qarms EXCEPT ![ConcurrentKey] =
                    FlushUpdate(@, txns[c].loaded, txns[c].assigned)]
    /\ txns' = [txns EXCEPT ![c].status = "done"]
    /\ UNCHANGED off_txns

NextConcurrent ==
    \/ \E c \in Calls, arm \in ConcurrentSnapshots : SyncSelect(c, arm)
    \/ \E c \in Calls : SyncCommit(c)

SpecConcurrent == InitConcurrent /\ [][NextConcurrent]_vars

\* ------------------------------------------------------------------- claims
\* A sync call is in flight: `call` holds its request, its outcome and the
\* tables as they were before it; qarms and tarms are the tables after it.
Called == call.status # "none"

\* The call in flight was not ended by an injected database outage.
NoOutage == call.error # "OperationalError"

QList == call.request.question_arms
TList == call.request.topic_arms
QKey(i) == <<call.user_id, QList[i].question_id>>
TKey(i) == <<call.user_id, TList[i].topic_key>>

\* The key of snapshot i occurs once in its list.
QOnce(i) == \A j \in 1..Len(QList) : QList[j].question_id = QList[i].question_id => j = i
TOnce(i) == \A j \in 1..Len(TList) : TList[j].topic_key = TList[i].topic_key => j = i

\* Snapshot i meets a stored arm and is newer than it (or the stored
\* updated_at is null).
QNewer(i) ==
    /\ QKey(i) \in DOMAIN call.pre_q
    /\ \/ call.pre_q[QKey(i)].updated_at = Null
       \/ FromTimestamp(QList[i].updated_at) > call.pre_q[QKey(i)].updated_at[1]
TNewer(i) ==
    /\ TKey(i) \in DOMAIN call.pre_t
    /\ \/ call.pre_t[TKey(i)].last_updated = Null
       \/ FromTimestamp(TList[i].updated_at) > call.pre_t[TKey(i)].last_updated[1]

\* The stored counters are those of the snapshot.
CountersOf(row, arm) ==
    /\ row.attempts = arm.attempts
    /\ row.successes = arm.successes
    /\ row.failures = arm.failures
    /\ row.total_response_time_ms = arm.total_response_time_ms
    /\ row.alpha = arm.alpha
    /\ row.beta = arm.beta

\* C1 (as claimed): every submitted snapshot, question or topic arm, whose
\* key is already stored overwrites the stored arm if and only if the stored
\* updated_at is null or the submitted one is strictly greater; otherwise the
\* stored arm is left exactly as it was.
C1_OverwriteIffNewer ==
    Called /\ NoOutage =>
      /\ \A i \in 1..Len(QList) :
           QKey(i) \in DOMAIN call.pre_q /\ QOnce(i) =>
             IF QNewer(i)
             THEN /\ CountersOf(qarms[QKey(i)], QList[i])
                  /\ qarms[QKey(i)].updated_at =
                        Some(FromTimestamp(QList[i].updated_at))
             ELSE qarms[QKey(i)] = call.pre_q[QKey(i)]
      /\ \A i \in 1..Len(TList) :
           TKey(i) \in DOMAIN call.pre_t /\ TOnce(i) =>
             IF TNewer(i)
             THEN /\ CountersOf(tarms[TKey(i)], TList[i])
                  /\ tarms[TKey(i)].last_updated =
                        Some(FromTimestamp(TList[i].updated_at))
             ELSE tarms[TKey(i)] = call.pre_t[TKey(i)]

\* C2 (as claimed): a snapshot strictly older than the stored arm leaves the
\* stored arm unchanged, and the response of the same call contains the
\* stored arm with its unchanged values.
C2_OlderKeptAndReturned ==
    Called /\ NoOutage =>
      \A i \in 1..Len(QList) :
        ( /\ QKey(i) \in DOMAIN call.pre_q
          /\ QOnce(i)
          /\ call.pre_q[QKey(i)].updated_at # Null
          /\ FromTimestamp(QList[i].updated_at) < call.pre_q[QKey(i)].updated_at[1] )
        => /\ qarms[QKey(i)] = call.pre_q[QKey(i)]
           /\ call.status = "ok"
           /\ QuestionArmToDict(call.pre_q[QKey(i)]) \in call.question_arms

\* C3 (as claimed): a verbatim replay of a sync request returns
\* conflicts_resolved = 0, leaves the arm store as the first call left it and
\* returns the same two arm lists as the first call, from any store state,
\* also when the first call inserted or overwrote arms.
C3_ReplayIdempotent ==
    Called /\ prior.status # "none" /\ prior.error # "OperationalError" =>
      /\ prior.status = "ok"
      /\ call.status = "ok"
      /\ call.conflicts_resolved = 0
      /\ qarms = call.pre_q
      /\ tarms = call.pre_t
      /\ call.question_arms = prior.question_arms
      /\ call.topic_arms = prior.topic_arms

\* C4: a sync call is atomic over both arm lists.  A call that fails while
\* merging a snapshot of either list, or at commit, leaves both tables
\* exactly as they were; a call that succeeds has every winning overwrite
\* (and every insert) of both lists stored.
C4_BatchAtomic ==
    Called =>
      /\ call.phase \in {"merge", "commit"} =>
           /\ ~call.committed
           /\ qarms = call.pre_q
           /\ tarms = call.pre_t
      /\ call.status = "ok" =>
           /\ \A i \in 1..Len(QList) :
                QOnce(i) /\ (QKey(i) \notin DOMAIN call.pre_q \/ QNewer(i)) =>
                  /\ QKey(i) \in DOMAIN qarms
                  /\ CountersOf(qarms[QKey(i)], QList[i])
                  /\ qarms[QKey(i)].updated_at =
                        Some(FromTimestamp(QList[i].updated_at))
           /\ \A i \in 1..Len(TList) :
                TOnce(i) /\ (TKey(i) \notin DOMAIN call.pre_t \/ TNewer(i)) =>
                  /\ TKey(i) \in DOMAIN tarms
                  /\ CountersOf(tarms[TKey(i)], TList[i])

\* C4 witness: the database failed at COMMIT after the session had already
\* flushed a winning overwrite of the batch.
C4_Witness ==
    /\ Called
    /\ call.phase = "commit"
    /\ call.error = "OperationalError"
    /\ \E i \in 1..Len(QList) : QNewer(i)
    /\ Len(QList) = 2

\* C5 (as claimed): the response contains every arm of the caller changed on
\* the server since last_sync_time, and in particular every arm this call
\* itself inserted or overwrote, whatever updated_at it carried.
C5_ResponseHasOwnWrites ==
    Called /\ NoOutage =>
      \A k \in Written(call.pre_q, qarms, call.user_id) :
        /\ call.status = "ok"
        /\ QuestionArmToDict(qarms[k]) \in call.question_arms

\* C6 (as claimed): a device that calls again with last_sync_time equal to
\* the server_time it persisted receives every arm of its user that sync
\* calls wrote on the server after that checkpoint was issued.
C6_CheckpointComplete ==
    Called /\ NoOutage =>
      \A k \in call.owed :
        /\ call.status = "ok"
        /\ QuestionArmToDict(qarms[k]) \in call.question_arms

\* C7 (as claimed): a sync call with last_sync_time <= 0 returns every
\* question arm and topic arm stored for the caller after the call's own
\* merge, whatever their updated_at.
C7_BootstrapComplete ==
    Called /\ NoOutage /\ call.request.last_sync_time <= 0 =>
      /\ call.status = "ok"
      /\ call.question_arms =
           { QuestionArmToDict(qarms[k]) :
               k \in { x \in DOMAIN qarms : x[1] = call.user_id } }
      /\ call.topic_arms =
           { TopicArmToDict(tarms[k]) :
               k \in { x \in DOMAIN tarms : x[1] = call.user_id } }

\* C8 (as claimed): every stored arm has attempts = successes + failures in
\* every reachable state.
C8_AttemptsInvariant ==
    /\ \A k \in DOMAIN qarms :
         qarms[k].attempts = qarms[k].successes + qarms[k].failures
    /\ \A k \in DOMAIN tarms :
         tarms[k].attempts = tarms[k].successes + tarms[k].failures

\* The request of the call in flight reduced to its question snapshot i.
AloneRequest(i) ==
    [last_sync_time |-> call.request.last_sync_time,
     question_arms |-> <<QList[i]>>, topic_arms |-> <<>>]

\* C9 (as claimed): in a batch with pairwise distinct keys the stored value
\* of each arm after the call is what the call would have stored had the
\* snapshots of all other arms been removed from the batch.
C9_PerArmIndependent ==
    ( /\ Called
      /\ NoOutage
      /\ \A i \in 1..Len(QList) : QOnce(i)
      /\ \A i \in 1..Len(TList) : TOnce(i) )
    => \A i \in 1..Len(QList) :
         LET alone == SyncMabState(call.pre_q, call.pre_t, call.user_id,
                                   AloneRequest(i), now, "none")
         IN  /\ QKey(i) \in DOMAIN qarms <=> QKey(i) \in DOMAIN alone.q
             /\ QKey(i) \in DOMAIN qarms => qarms[QKey(i)] = alone.q[QKey(i)]

\* C10: a sync call of user U leaves every arm of every other user exactly
\* as it was, creates no arm for another user, and returns only arms whose
\* user_id is U.
C10_UserIsolation ==
    Called =>
      /\ \A k \in DOMAIN qarms \cup DOMAIN call.pre_q :
           k[1] # call.user_id =>
             /\ k \in DOMAIN qarms
             /\ k \in DOMAIN call.pre_q
             /\ qarms[k] = call.pre_q[k]
      /\ \A k \in DOMAIN tarms \cup DOMAIN call.pre_t :
           k[1] # call.user_id =>
             /\ k \in DOMAIN tarms
             /\ k \in DOMAIN call.pre_t
             /\ tarms[k] = call.pre_t[k]
      /\ \A k \in DOMAIN qarms : qarms[k].user_id = k[1]
      /\ \A d \in call.question_arms : d.user_id = call.user_id
      /\ \A d \in call.topic_arms : d.user_id = call.user_id

\* C10 witness: the caller overwrote and was returned an arm whose
\* question_id another user also holds an arm for.
C10_Witness ==
    /\ Called
    /\ call.status = "ok"
    /\ \E k \in Written(call.pre_q, qarms, call.user_id) :
         /\ QuestionArmToDict(qarms[k]) \in call.question_arms
         /\ \E u \in Users \ {call.user_id} : <<u, k[2]>> \in DOMAIN qarms

\* A JSON value has the JSON type its field is declared with.
HasDeclaredType(type, json) ==
    CASE type = "str" -> json[1] = "str"
      [] type = "int" -> json[1] = "int"
      [] type = "float" -> json[1] \in {"int", "float"}
      [] type = "optional_int" -> json[1] \in {"int", "null"}

\* A required field is missing or a field is of the wrong type.
FieldMalformed(type, obj, name) ==
    IF name \notin DOMAIN obj THEN type # "optional_int"
    ELSE ~HasDeclaredType(type, obj[name])

\* A required field is missing or a field holds what no conversion turns
\* into its declared type: null or a word for a number, a non-string for a
\* string.
FieldUnconvertible(type, obj, name) ==
    IF name \notin DOMAIN obj THEN type # "optional_int"
    ELSE LET json == obj[name]
         IN  CASE type = "str" -> json[1] # "str"
               [] type \in {"int", "float"} ->
                    \/ json[1] = "null"
                    \/ json[1] = "str" /\ json[2] \notin DOMAIN NumericStrings
               [] type = "optional_int" ->
                    json[1] = "str" /\ json[2] \notin DOMAIN NumericStrings

SnapshotsOf(json, name) == IF name \in DOMAIN json THEN json[name] ELSE <<>>

\* Some snapshot of either list of the body in flight is malformed.
SomeSnapshotMalformed ==
    \/ \E i \in 1..Len(SnapshotsOf(body, "question_arms")) :
         \E name \in DOMAIN QuestionArmSyncFields :
           FieldMalformed(QuestionArmSyncFields[name], body.question_arms[i], name)
    \/ \E i \in 1..Len(SnapshotsOf(body, "topic_arms")) :
         \E name \in DOMAIN TopicArmSyncFields :
           FieldMalformed(TopicArmSyncFields[name], body.topic_arms[i], name)

SomeSnapshotUnconvertible ==
    \/ \E i \in 1..Len(SnapshotsOf(body, "question_arms")) :
         \E name \in DOMAIN QuestionArmSyncFields :
           FieldUnconvertible(QuestionArmSyncFields[name], body.question_arms[i], name)
    \/ \E i \in 1..Len(SnapshotsOf(body, "topic_arms")) :
         \E name \in DOMAIN TopicArmSyncFields :
           FieldUnconvertible(TopicArmSyncFields[name], body.topic_arms[i], name)

RejectedUntouched ==
    /\ call.status = "rejected"
    /\ call.error = "RequestValidationError"
    /\ qarms = call.pre_q
    /\ tarms = call.pre_t

QuestionRowIs(row, arm) ==
    /\ CountersOf(row, arm)
    /\ row.question_id = arm.question_id
    /\ row.user_confidence = arm.user_confidence
    /\ row.last_attempted =
          (IF arm.last_attempted = Null THEN Null
           ELSE Some(FromTimestamp(arm.last_attempted[1])))
    /\ row.created_at = Some(FromTimestamp(arm.created_at))
    /\ row.updated_at = Some(FromTimestamp(arm.updated_at))

\* C12 (as claimed, for a snapshot that won the comparison): after a call
\* that answered, every field of the stored arm equals the corresponding
\* field of the accepted snapshot, created_at and updated_at included; no
\* field of the previous record survives.
C12_OverwriteInFull ==
    Called /\ call.status = "ok" =>
      \A i \in 1..Len(QList) :
        QOnce(i) /\ QNewer(i) => QuestionRowIs(qarms[QKey(i)], QList[i])

\* The number of items of a list that overwrote an already-stored arm:
\* stamps maps the stored keys to their updated_at, items is the list as
\* <<key, client_updated>> pairs, taken in order.
RECURSIVE Overwrites(_, _, _)
Overwrites(stamps, items, i) ==
    IF i > Len(items) THEN 0
    ELSE LET key == items[i][1]
             at == items[i][2]
         IN  IF key \notin DOMAIN stamps
             THEN Overwrites(stamps @@ (key :> Some(at)), items, i + 1)
             ELSE IF stamps[key] = Null \/ at > stamps[key][1]
             THEN 1 + Overwrites([stamps EXCEPT ![key] = Some(at)], items, i + 1)
             ELSE Overwrites(stamps, items, i + 1)

QOverwrites ==
    Overwrites([k \in DOMAIN call.pre_q |-> call.pre_q[k].updated_at],
               [i \in 1..Len(QList) |->
                  <<QKey(i), FromTimestamp(QList[i].updated_at)>>], 1)
TOverwrites ==
    Overwrites([k \in DOMAIN call.pre_t |-> call.pre_t[k].last_updated],
               [i \in 1..Len(TList) |->
                  <<TKey(i), FromTimestamp(TList[i].updated_at)>>], 1)

\* C13: the conflicts_resolved value a sync call returns equals the number
\* of submitted snapshots, over the question-arm and the topic-arm list
\* together, that overwrote an already-stored arm in that call; inserts and
\* discarded (equal or older) snapshots count 0.
C13_ConflictsResolvedCount ==
    Called /\ call.status = "ok" =>
      call.conflicts_resolved = QOverwrites + TOverwrites

\* C13 witness: an answered call whose batch held one snapshot that overwrote
\* a stored arm and one that was discarded.
C13_Witness ==
    /\ Called
    /\ call.status = "ok"
    /\ Len(QList) = 2
    /\ call.conflicts_resolved = 1
    /\ \E i \in 1..2 : QNewer(i)

\* Both devices have added observations to the arm they started from and
\* both have synced, one after the other, with different updated_at values.
BothSynced ==
    /\ devices # <<>>
    /\ \A d \in Devices :
         /\ devices[d].pushed
         /\ devices[d].arm.attempts > devices[d].base.attempts
    /\ devices["A"].arm.updated_at # devices["B"].arm.updated_at

\* The device whose snapshot carries the greater updated_at.
Newest ==
    IF devices["A"].arm.updated_at > devices["B"].arm.updated_at THEN "A" ELSE "B"

DeviceKey == <<"u1", devices["A"].arm.question_id>>

SingleDone == job # NoJob /\ job.op = "calculate_single"

EventsInWindow(question_id, days_back) ==
    Len(OfQuestion(InWindow(student_responses, days_back, now), question_id))

\* C15: a single-item calculation over fewer response events in the window
\* than the minimum sample size produces no metrics, and calculate-single
\* answers its caller "not found" (404), not a server error.
C15_InsufficientIsNotFound ==
    /\ SingleDone
    /\ ~job.fails
    /\ EventsInWindow(job.question_id, job.days_back) < MinSampleSize
    => /\ job.metrics = Null
       /\ job.response.status_code = 404

\* ------------------------------------------------------------------- C16
BatchRan == job # NoJob /\ job.op = "batch"

\* What the calculation of item i yields when nothing goes wrong
ItemMetrics(i) ==
    CalculateQuestionDifficulty(student_responses, job.items[i],
                                job.days_back, now, FALSE)

\* Item i failed: its calculation raised, or it had metrics and their
\* upsert raised.
ItemFailed(i) ==
    \/ job.faults[i] = "compute"
    \/ job.faults[i] = "upsert" /\ ItemMetrics(i) # Null

\* Item i went through: it had metrics and nothing went wrong with it.
ItemDone(i) == job.faults[i] = "none" /\ ItemMetrics(i) # Null

StoredFor(table, question_id) ==
    SelectSeq(table, LAMBDA row : row.question_id = question_id)

\* Every occurrence of the question of item i in the batch failed.
FailedThroughout(i) ==
    \A j \in 1..Len(job.items) : job.items[j] = job.items[i] => ItemFailed(j)

\* A failed item is absent from the returned result set.
FailedItemsAbsent ==
    \A i \in 1..Len(job.items) :
        ItemFailed(i) /\ FailedThroughout(i)
            => job.items[i] \notin DOMAIN job.results

\* The batch goes on after a failure: every item that went through is in
\* the result set and has its row in question_metrics.
BatchContinues ==
    \A i \in 1..Len(job.items) :
        ItemDone(i)
            => /\ job.items[i] \in DOMAIN job.results
               /\ Len(StoredFor(question_metrics, job.items[i])) = 1

\* The rows committed for other items stay: a failure of item i leaves the
\* row of every item that went through before it as that item's upsert
\* wrote it.
OtherItemsStayCommitted ==
    \A i \in 1..Len(job.items) : \A j \in 1..(i - 1) :
        /\ ItemFailed(i)
        /\ ItemDone(j)
        /\ \A k \in (j + 1)..Len(job.items) : job.items[k] # job.items[j]
        => StoredFor(question_metrics, job.items[j])
             = StoredFor(SaveDifficultyMetrics(job.before, ItemMetrics(j)[1],
                                               now, FALSE),
                         job.items[j])

\* C16: in a batch calculation an item whose calculation or upsert failed
\* is absent from the returned result set, the remaining items are still
\* processed, and the rows committed for other items stay committed.
C16_FailedItemExcluded ==
    BatchRan => /\ FailedItemsAbsent
                /\ BatchContinues
                /\ OtherItemsStayCommitted

\* ------------------------------------------------------------------- C17
CompositeCalled == probe.status = "done" /\ probe.op = "composite"

InUnitInterval(x) == FLe(FZero, x) /\ FLe(x, FInt(1))

\* C17: of two calls of the composite score that differ in success_rate
\* only, both rates in [0,1], the one with the lower success rate returns a
\* score at least as large, and both scores lie in [0,1].
C17_CompositeMonotone ==
    CompositeCalled
        => /\ InUnitInterval(probe.score)
           /\ InUnitInterval(probe.other_score)
           /\ FLe(probe.other_success_rate, probe.success_rate)
                  => FLe(probe.score, probe.other_score)

\* C17 witness: a strictly lower success rate gave a strictly larger score,
\* neither of them clamped.
C17_Witness ==
    /\ CompositeCalled
    /\ FLt(probe.other_success_rate, probe.success_rate)
    /\ FLt(FZero, probe.score)
    /\ FLt(probe.score, probe.other_score)
    /\ FLt(probe.other_score, FInt(1))

\* ------------------------------------------------------------------- C18
WilsonCalled == probe.status = "done" /\ probe.op = "wilson"

Width(interval) == FSub(interval[2], interval[1])

\* 0 <= lower <= successes/total <= upper <= 1
Brackets(interval, p) ==
    /\ FLe(FZero, interval[1])
    /\ FLe(interval[1], p)
    /\ FLe(p, interval[2])
    /\ FLe(interval[2], FInt(1))

\* The interval is strictly narrower for the same proportion of a larger
\* total.
Narrows == FLt(Width(probe.grown), Width(probe.interval))

\* C18: for 0 <= successes <= total, total >= 1, the Wilson interval the
\* calculator returns satisfies 0 <= lower <= successes/total <= upper <= 1,
\* and for the same proportion of a larger total the interval is strictly
\* narrower.
C18_WilsonBrackets ==
    WilsonCalled => /\ Brackets(probe.interval, probe.p)
                    /\ Narrows

\* ------------------------------------------------------------------- C19
\* What record_response(is_correct, response_time_ms) changes in the arm k
\* between a state and its successor
RecordedIn(k, is_correct, response_time_ms) ==
    /\ qarms'[k].attempts = qarms[k].attempts + 1
    /\ qarms'[k].successes
         = qarms[k].successes + (IF is_correct THEN 1 ELSE 0)
    /\ qarms'[k].failures
         = qarms[k].failures + (IF is_correct THEN 0 ELSE 1)
    /\ qarms'[k].alpha = qarms[k].alpha + (IF is_correct THEN 1 ELSE 0)
    /\ qarms'[k].beta = qarms[k].beta + (IF is_correct THEN 0 ELSE 1)
    /\ qarms'[k].total_response_time_ms
         = qarms[k].total_response_time_ms + response_time_ms
    /\ qarms'[k].user_confidence
         = Ratio(qarms'[k].alpha, qarms'[k].alpha + qarms'[k].beta)
    /\ qarms'[k].last_attempted = DbNow
    /\ qarms[k].attempts = qarms[k].successes + qarms[k].failures
         => qarms'[k].attempts = qarms'[k].successes + qarms'[k].failures

\* No arm but k is touched, and none appears or disappears.
OnlyArm(k) ==
    /\ DOMAIN qarms' = DOMAIN qarms
    /\ \A o \in DOMAIN qarms : o # k => qarms'[o] = qarms[o]
    /\ tarms' = tarms

\* C19: record_response on an existing arm adds 1 to attempts, 1 to
\* successes and alpha if correct and to failures and beta if not, adds
\* response_time_ms to total_response_time_ms, sets user_confidence to
\* alpha/(alpha+beta) and last_attempted to the event time, and keeps
\* attempts = successes + failures; without the arm it cannot run, and the
\* arm store stays as it is.
C19_RecordResponse ==
    [][\A u \in Users, qid \in QuestionIds, ok \in BOOLEAN,
          ms \in ResponseTimes :
          /\ RecordResponse(u, qid, ok, ms)
                => /\ <<u, qid>> \in DOMAIN qarms
                   /\ RecordedIn(<<u, qid>>, ok, ms)
                   /\ OnlyArm(<<u, qid>>)
          /\ (call = NoCall /\ now < MaxClock
                /\ <<u, qid>> \in DOMAIN qarms)
                => ENABLED RecordResponse(u, qid, ok, ms)
          /\ <<u, qid>> \notin DOMAIN qarms
                => ~ENABLED RecordResponse(u, qid, ok, ms)]_vars

\* C19 witness: an arm created and then answered once, incorrectly: one
\* attempt, one failure, beta one above its prior.
C19_Witness ==
    \E k \in DOMAIN qarms :
        /\ qarms[k].attempts = 1
        /\ qarms[k].failures = 1
        /\ qarms[k].successes = 0
        /\ qarms[k].alpha = InitializePrior(qarms[k].difficulty)[1]
        /\ qarms[k].beta = InitializePrior(qarms[k].difficulty)[2] + 1
        /\ qarms[k].last_attempted # Null
        /\ qarms[k].last_attempted = qarms[k].updated_at
        /\ qarms[k].created_at # qarms[k].updated_at

\* ------------------------------------------------------------------- C20
BothCompleted == \A c \in Calls : txns[c].status = "done"

\* The two calls ran interleaved: each read the arm before the other
\* committed.
Interleaved == \A c \in Calls : txns[c].loaded = ConcurrentStored

\* The records the rule chooses among: the arm as stored and as either
\* snapshot would overwrite it
Candidates ==
    {ConcurrentStored}
        \cup {OverwriteQuestionArm(ConcurrentStored, txns[c].arm) : c \in Calls}

\* C20: after two concurrent sync calls of one user, each with a snapshot of
\* the same stored arm, the stored arm is the record with the greatest
\* updated_at among the arm as stored before and the two snapshots.
C20_ConcurrentLastWriteWins ==
    BothCompleted
        => /\ qarms[ConcurrentKey] \in Candidates
           /\ \A r \in Candidates :
                  r.updated_at[1] <= qarms[ConcurrentKey].updated_at[1]

\* ------------------------------------------------------------------- C21
\* The call in flight failed in its delta queries, after its merges.
QueryFailed == Called /\ call.status = "error" /\ call.phase = "query"

\* C21: the merges of a sync call and its delta queries are one atomic
\* transaction: a call whose delta query fails commits none of its merges,
\* and a call that answers returns the user's arms changed since
\* last_sync_time as its own merge left them.
C21_MergeAndQueryAtomic ==
    /\ QueryFailed
          => /\ qarms = call.pre_q
             /\ tarms = call.pre_t
    /\ Called /\ call.status = "ok"
          => /\ call.question_arms
                  = ServerQuestionArms(qarms, call.user_id,
                        LastSyncDatetime(call.request.last_sync_time))
             /\ call.topic_arms
                  = ServerTopicArms(tarms, call.user_id,
                        LastSyncDatetime(call.request.last_sync_time))

\* ------------------------------------------------------------------- C23
\* The ids of the rows of question_metrics a batch wrote
Upserted ==
    {question_metrics[i].question_id : i \in
        {i \in 1..Len(question_metrics) :
            i > Len(job.before) \/ question_metrics[i] # job.before[i]}}

Range(seq) == {seq[i] : i \in 1..Len(seq)}

\* C23: a batch calculation given an explicit set of ids, the empty one
\* included, returns and upserts results for ids of that set only; given
\* no set it processes exactly the questions with at least min_sample_size
\* response events in the window.
C23_ExplicitIdsOnly ==
    BatchRan
        => /\ job.question_ids # Null
                => /\ DOMAIN job.results \subseteq Range(job.question_ids[1])
                   /\ Upserted \subseteq Range(job.question_ids[1])
           /\ job.question_ids = Null
                => Range(job.items)
                     = ActiveQuestions(student_responses, job.days_back, now)

\* ------------------------------------------------------------------- C22
\* The metric fields of a row other than its timestamps
MetricFields ==
    {"global_success_rate", "total_attempts", "average_response_time",
     "reach_rate", "difficulty_score", "computed_difficulty",
     "confidence_lower", "confidence_upper"}

\* Item i of the batch was recomputed: it has metrics and its upsert ran.
Recomputed(i) ==
    job.items[i] \in DOMAIN job.results /\ job.faults[i] = "none"

OneRowPerQuestion ==
    \A i, j \in 1..Len(question_metrics) :
        question_metrics[i].question_id = question_metrics[j].question_id
            => i = j

\* The row of a recomputed item holds the values just computed.
Superseded ==
    \A i \in 1..Len(job.items) :
        Recomputed(i)
            => \E r \in 1..Len(question_metrics) :
                  \A col \in MetricFields \cup {"question_id", "last_computed"} :
                      question_metrics[r][col]
                        = MetricsColumns(job.results[job.items[i]])[col]

\* The metric fields of the row of item i are what they were before the
\* batch.
SameMetrics(i) ==
    \A col \in MetricFields :
        StoredFor(question_metrics, job.items[i])[1][col]
          = StoredFor(job.before, job.items[i])[1][col]

\* The response events the calculation at a given time looks at
WindowAt(at) == InWindow(student_responses, job.days_back, at)

StoredNew(i) ==
    /\ StoredFor(question_metrics, job.items[i]) # <<>>
    /\ \A col \in MetricFields \cup {"last_computed"} :
          StoredFor(question_metrics, job.items[i])[1][col]
            = MetricsColumns(job.results[job.items[i]])[col]

\* get_question_metrics(question_id) answers with the stored row of the
\* question.
AnswersStored(question_id) ==
    /\ job'.response.status_code = 200
    /\ job'.response.data = StoredFor(question_metrics, question_id)[1]

\* C30: a get-metrics-single issued right after a batch that computed and
\* upserted the metrics of an item answers with those metrics, whether
\* the item had no row, an active row or a row deactivated by
\* cleanup_old_metrics before the batch.
C30_GetAfterUpsert ==
    [][\A i \in 1..Len(IF BatchRan THEN job.items ELSE <<>>) :
           Recomputed(i) /\ GetQuestionMetrics(job.items[i])
               => StoredNew(i) /\ AnswersStored(job.items[i])]_vars

\* ------------------------------------------------------------------
\* C24: the difficulty category
\* ------------------------------------------------------------------

\* The DifficultyMetrics the last job produced
Produced ==
    IF SingleDone THEN {job.metrics[i] : i \in DOMAIN job.metrics}
    ELSE IF BatchRan THEN {job.results[q] : q \in DOMAIN job.results}
    ELSE {}

\* The category DIFFICULTY_THRESHOLDS would give a success rate: above
\* 70% beginner, 40% to 70% intermediate, below 40% advanced
RateCategories(success_rate) ==
    IF FLt(FLit(7, 10), success_rate) THEN {"beginner"}
    ELSE IF FLt(success_rate, FLit(4, 10)) THEN {"advanced"}
    ELSE {"intermediate"}

ByScore(metrics) ==
    /\ metrics.computed_difficulty = "beginner"
          <=> FLe(metrics.difficulty_score, FLit(3, 10))
    /\ metrics.computed_difficulty = "intermediate"
          <=> /\ FLt(FLit(3, 10), metrics.difficulty_score)
              /\ FLe(metrics.difficulty_score, FLit(7, 10))
    /\ metrics.computed_difficulty = "advanced"
          <=> FLt(FLit(7, 10), metrics.difficulty_score)

\* C24: the computed_difficulty of every DifficultyMetrics the calculator
\* produces follows from its difficulty_score alone: beginner iff the
\* score is at most 0.3, intermediate iff it is above 0.3 and at most 0.7,
\* advanced iff it is above 0.7, whatever the success-rate thresholds
\* would say.
C24_CategoryFromScore ==
    \A metrics \in Produced :
        /\ metrics.difficulty_score
             = CalculateCompositeDifficulty(metrics.global_success_rate,
                                            metrics.reach_rate,
                                            metrics.average_response_time,
                                            metrics.question_id)
        /\ ByScore(metrics)

\* C24 witness: the calculator produced metrics whose category is not the
\* one the success-rate thresholds give.
C24_Witness ==
    \E metrics \in Produced :
        /\ ByScore(metrics)
        /\ metrics.computed_difficulty
             \notin RateCategories(metrics.global_success_rate)

\* ------------------------------------------------------------------
\* C26: the prior of a new question arm
\* ------------------------------------------------------------------

\* The prior of the three known tags, and the uniform one for any other
UniformForUnknown(difficulty) ==
    IF difficulty = "beginner" THEN <<7, 3>>
    ELSE IF difficulty = "intermediate" THEN <<5, 5>>
    ELSE IF difficulty = "advanced" THEN <<3, 7>>
    ELSE <<1, 1>>

\* C26: the arm created for a question carries the prior of the
\* question's difficulty tag: 7/3 for beginner, 5/5 for intermediate, 3/7
\* for advanced and the uniform 1/1 for an unknown or missing tag, with
\* alpha and beta positive in every case.
C26_PriorOfTag ==
    [][\A user_id \in Users, question_id \in QuestionIds :
           CreateQuestionArm(user_id, question_id)
               => /\ <<qarms'[<<user_id, question_id>>].alpha,
                        qarms'[<<user_id, question_id>>].beta>>
                        = UniformForUnknown(QuestionDifficulty(question_id))
                  /\ qarms'[<<user_id, question_id>>].alpha > 0
                  /\ qarms'[<<user_id, question_id>>].beta > 0]_vars

\* ------------------------------------------------------------------
\* C28: stored timestamps never go back
\* ------------------------------------------------------------------

\* No arm of the table before the call is missing after it.
KeysKept(before, after) == DOMAIN before \subseteq DOMAIN after

\* The timestamp column col of no arm went back, where it was not null.
NotEarlier(before, after, col) ==
    \A key \in DOMAIN before \cap DOMAIN after :
        before[key][col] # Null
            => /\ after[key][col] # Null
               /\ after[key][col][1] >= before[key][col][1]

\* C28: whatever a sync call does, and however it ends, every arm stored
\* before it is still stored after it, and the stored updated_at of an
\* arm that had one is not earlier than it was.
C28_UpdatedAtMonotone ==
    Called
        => /\ KeysKept(call.pre_q, qarms)
           /\ KeysKept(call.pre_t, tarms)
           /\ NotEarlier(call.pre_q, qarms, "updated_at")
           /\ NotEarlier(call.pre_t, tarms, "last_updated")

\* C28 witness: a call that sent a newer and an older snapshot of stored
\* arms committed: the timestamp of one arm moved forward and another arm
\* kept a timestamp later than the one sent for it.
C28_Witness ==
    /\ Called
    /\ call.status = "ok"
    /\ \E i \in 1..Len(QList) :
          /\ QKey(i) \in DOMAIN call.pre_q
          /\ qarms[QKey(i)].updated_at[1] > call.pre_q[QKey(i)].updated_at[1]
    /\ \E i \in 1..Len(QList) :
          /\ QKey(i) \in DOMAIN call.pre_q
          /\ FromTimestamp(QList[i].updated_at)
                < call.pre_q[QKey(i)].updated_at[1]
          /\ qarms[QKey(i)].updated_at = call.pre_q[QKey(i)].updated_at

\* ------------------------------------------------------------------
\* C29: several snapshots of one key in one batch
\* ------------------------------------------------------------------

\* The snapshots of the batch for the key of snapshot i
SameKey(i) == {j \in 1..Len(QList) : QList[j].question_id = QList[i].question_id}

QStamp(i) == FromTimestamp(QList[i].updated_at)

\* Snapshot i is the earliest of the latest snapshots of its key.
FirstLatest(i) ==
    \A j \in SameKey(i) :
        /\ QStamp(j) <= QStamp(i)
        /\ j < i => QStamp(j) < QStamp(i)

\* The arm stored before the call is at least as late as every snapshot
\* sent for the key of snapshot i.
StoredLatest(i) ==
    /\ QKey(i) \in DOMAIN call.pre_q
    /\ call.pre_q[QKey(i)].updated_at # Null
    /\ \A j \in SameKey(i) : QStamp(j) <= call.pre_q[QKey(i)].updated_at[1]

\* C29: after a call whose batch holds several snapshots of one key, the
\* key has one stored arm, and it is the latest record among the arm
\* stored before and the snapshots: the stored arm untouched if none is
\* later than it, else the earliest of the latest snapshots.
C29_DuplicatesMergedInOrder ==
    Called /\ NoOutage
        => \A i \in 1..Len(QList) :
               ~QOnce(i)
                   => /\ QKey(i) \in DOMAIN qarms
                      /\ IF StoredLatest(i)
                         THEN qarms[QKey(i)] = call.pre_q[QKey(i)]
                         ELSE \E j \in SameKey(i) :
                                  /\ FirstLatest(j)
                                  /\ CountersOf(qarms[QKey(i)], QList[j])
                                  /\ qarms[QKey(i)].updated_at
                                       = Some(QStamp(j))

\* ------------------------------------------------------------------
\* C25: the reach rate
\* ------------------------------------------------------------------

\* A calculation of one item came to its metrics.
ItemCalculated ==
    /\ job # NoJob
    /\ job.op = "calculate_item"
    /\ job.step = "done"
    /\ job.metrics # Null

\* The window of the calculation: the events of the last days_back days
\* when the calculation read the item's events
ItemWindow == InWindow(job.snapshot, job.days_back, job.at)

ReachOfWindow(window, question_id) ==
    FDiv(FInt(Cardinality(UsersOf(OfQuestion(window, question_id)))),
         FInt(IntMax(1, Cardinality(UsersOf(window)))))

\* C25: the reach_rate of a calculated item is the number of distinct
\* users with an event of the item in the window over the number of
\* distinct users with any event in the same window (at least 1), and
\* lies in [0,1], also when events are appended while the calculation
\* runs.
C25_ReachRate ==
    ItemCalculated
        => /\ job.metrics[1].reach_rate
                = ReachOfWindow(ItemWindow, job.question_id)
           /\ InUnitInterval(job.metrics[1].reach_rate)

\* ------------------------------------------------------------------
\* C27: retries of the background tasks
\* ------------------------------------------------------------------

TaskStarted == job # NoJob /\ job.op = "task" /\ job.state # "queued"

\* The task was retried no more often than max_retries, each time with
\* twice the countdown of the time before.
RetriesBounded ==
    /\ job.retries <= MaxRetriesOf(job.task)
    /\ Len(job.countdowns) = job.retries
    /\ \A k \in 2..Len(job.countdowns) :
          job.countdowns[k] = 2 * job.countdowns[k - 1]

\* A run that failed with no retry left ended the task with a failure
\* result.
ExhaustedFails ==
    job.state = "finished" /\ job.fault \in {"close", "loop"}
        => /\ job.retries = MaxRetriesOf(job.task)
           /\ job.result[1].success = FALSE

\* A run whose batch calculation failed was not reported as a success: it
\* led to a retry or to the failure result.
BatchFailureSeen ==
    job.fault = "batch"
        => \/ job.state = "retry"
           \/ job.state = "finished" /\ job.result[1].success = FALSE

\* C27: a task whose batch calculation fails is retried at most
\* max_retries times (3 for the all-items task, 2 for the id-batch task)
\* with a countdown that doubles from retry to retry, ends with a failure
\* result once the retries are used up, and every failure of the batch
\* calculation reaches the task so that the retry is triggered.
C27_BoundedRetries ==
    TaskStarted => RetriesBounded /\ ExhaustedFails /\ BatchFailureSeen

====
